---- MODULE Spec2Model ----
(***************************************************************************)
(* The self-learning loop of the TALON insights backend:                   *)
(*   talon/insights_learning.py  record_feedback, analyze_patterns,        *)
(*                               approve_kb_learning                       *)
(*   talon/kb_updater.py         update_kb_with_learnings                  *)
(* and the insights pipeline that feeds it:                                *)
(*   talon/insights_detector.py  InsightsDetector                          *)
(*   talon/insights_ai.py        InsightsAI                                *)
(*                                                                         *)
(* Numbers.  Percentages, ratings and confidence are Python floats.  They  *)
(* are carried here as integers in units of 1/10000 (Unit), and the values *)
(* the code stores after round(x, 2) as integers in hundredths.  Threshold *)
(* tests on rates are made on the exact fractions.  On every feedback      *)
(* sample the specifications below can build, these integers agree with    *)
(* the floats the code computes.                                           *)
(*                                                                         *)
(* Timestamps (action_at, last_calculated_at, kb_last_updated_at,          *)
(* last_updated) are metadata that no decision reads; they are left out.   *)
(* A Learning's created_at is carried by its row id.                       *)
(***************************************************************************)
EXTENDS Integers, Sequences, FiniteSets, TLC

VARIABLES
    feedback,    \* table insights_feedback: sequence of rows, in insertion order
    patterns,    \* table insights_patterns: category -> row, or NoPattern
    learnings,   \* table kb_learnings: sequence of rows, row i has id i
    kbFile,      \* TALON_KNOWLEDGE_BASE.md: [exists, content]
    backups,     \* the contents of the TALON_KNOWLEDGE_BASE.md.backup.* files
    upd,         \* one update_kb_with_learnings invocation per caller: its locals
    wlog,        \* per invocation: its writes so far, made or failed, in order
    snap,        \* per invocation: the tables and the file as they were when it began
    prev,        \* the last finished non-dry-run update, and approvals since then
    fblog,       \* what the last step did, when it was a record_feedback call
    an,          \* an analyze_patterns invocation taken write by write: its locals
    calc,        \* a call of one of the Analyzer's pure functions: arguments, result
    det,         \* an InsightsDetector: its trip, its elements and what analyze returned
    ai,          \* an InsightsAI.analyze_itinerary call: its inputs and what it returned
    recorder     \* one record_feedback call per concurrent client: its locals

\* the variables of the insights pipeline and of the calls taken on their own
restVars == <<an, calc, det, ai, recorder>>

vars == <<feedback, patterns, learnings, kbFile, backups, upd, wlog, snap, prev, fblog,
          an, calc, det, ai, recorder>>

----------------------------------------------------------------------------
(* Bounds of the model *)

\* feedback rows of the first category already stored when the model starts
InitRows == 9
\* feedback keys that record_feedback may add to them
MaxNew == 1
\* elements of a trip
MaxElements == 3
\* rows of kb_learnings
MaxLearnings == 2
\* items of a list in the service's answer
MaxAiItems == 2

\* the keys of the rows SpecFeedback starts with: InitRows of the first category
\* and one of the second
InitKeys == InitRows + 1

Categories == {"accommodation_gap", "tight_timing"}
Updaters == {"u1", "u2"}

None == 0 - 1

\* the reactions a client sends: action_taken, rating (None or 1..5), helpful
Payloads ==
    { [action_taken |-> "acted",     rating |-> 5,    helpful |-> "true"],
      [action_taken |-> "acted",     rating |-> None, helpful |-> "true"],
      [action_taken |-> "dismissed", rating |-> None, helpful |-> "none"],
      [action_taken |-> "dismissed", rating |-> 5,    helpful |-> "true"] }

----------------------------------------------------------------------------
(* Arithmetic *)

Unit == 100 * 100

Max(a, b) == IF a >= b THEN a ELSE b
Min(a, b) == IF a <= b THEN a ELSE b

\* num/den rounded to the nearest integer (num >= 0, den > 0)
RoundDiv(num, den) == (2 * num + den) \div (2 * den)

\* 20 * log10(m) in units of 1/10000, for m = 1 .. 130
Log10x20 ==
    << 0, 60205, 95424, 120411, 139794, 155630, 169019, 180617, 190848, 200000,
       208278, 215836, 222788, 229225, 235218, 240823, 246089, 251054, 255750, 260205,
       264443, 268484, 272345, 276042, 279588, 282994, 286272, 289431, 292479, 295424,
       298272, 301029, 303702, 306295, 308813, 311260, 313640, 315956, 318212, 320411,
       322556, 324649, 326693, 328690, 330642, 332551, 334419, 336248, 338039, 339794,
       341514, 343200, 344855, 346478, 348072, 349637, 351174, 352685, 354170, 355630,
       357065, 358478, 359868, 361235, 362582, 363908, 365214, 366501, 367769, 369019,
       370251, 371466, 372664, 373846, 375012, 376162, 377298, 378418, 379525, 380617,
       381697, 382762, 383815, 384855, 385883, 386899, 387903, 388896, 389878, 390848,
       391808, 392757, 393696, 394625, 395544, 396454, 397354, 398245, 399127, 400000,
       400864, 401720, 402567, 403406, 404237, 405061, 405876, 406684, 407485, 408278,
       409064, 409843, 410615, 411380, 412139, 412891, 413637, 414376, 415109, 415836,
       416557, 417271, 417981, 418684, 419382, 420074, 420760, 421441, 422117, 422788 >>

\* the rows of one category, in table order (.eq('insight_category', category))
SelectRows(rows, cat) == SelectSeq(rows, LAMBDA row : row.insight_category = cat)

CountIf(rows, Test(_)) == Cardinality({i \in 1..Len(rows) : Test(rows[i])})

\* sum(ratings) over the rows that carry a rating, added up by halves
RECURSIVE SumRatings(_)
SumRatings(rows) ==
    IF rows = <<>> THEN 0
    ELSE IF Len(rows) = 1
         THEN (IF rows[1].rating # None THEN rows[1].rating ELSE 0)
    ELSE LET half == Len(rows) \div 2
         IN  SumRatings(SubSeq(rows, 1, half))
             + SumRatings(SubSeq(rows, half + 1, Len(rows)))

----------------------------------------------------------------------------
(* The Pattern Analyzer's pure functions *)

\* _calculate_confidence: rates and the result in units of 1/10000
CalculateConfidence(sample_size, acceptance_rate, average_rating, helpful_percentage) ==
    LET size_confidence == Min(90 * Unit, 30 * Unit + Log10x20[sample_size + 1])
        clarity == Max(acceptance_rate, 100 * Unit - acceptance_rate)
        rating_score == (average_rating - Unit) * 25
        \* acceptance_rate and helpful_percentage are never None at the call
        total == clarity + helpful_percentage
                 + (IF average_rating # None THEN rating_score ELSE 0)
        count == IF average_rating # None THEN 3 ELSE 2
        performance_confidence == total \div count
        confidence == (6 * size_confidence + 4 * performance_confidence) \div 10
    IN  Min(100 * Unit, Max(0, confidence))

DetermineRecommendationInclusive(acceptance_rate, dismissal_rate, average_rating, confidence_score) ==
    IF confidence_score <= 60 * Unit THEN "keep"
    ELSE IF acceptance_rate >= 80 * Unit THEN "upgrade"
    ELSE IF acceptance_rate <= 20 * Unit
         THEN (IF dismissal_rate >= 70 * Unit THEN "disable" ELSE "downgrade")
    ELSE IF average_rating # None /\ average_rating >= 4 * Unit THEN "upgrade"
    ELSE IF average_rating # None /\ average_rating < 2 * Unit THEN "downgrade"
    ELSE "keep"

\* _determine_recommendation
DetermineRecommendation(acceptance_rate, dismissal_rate, average_rating, confidence_score) ==
    IF confidence_score < 60 * Unit THEN "keep"
    ELSE IF acceptance_rate > 80 * Unit THEN "upgrade"
    ELSE IF acceptance_rate < 20 * Unit
         THEN (IF dismissal_rate > 70 * Unit THEN "disable" ELSE "downgrade")
    ELSE IF average_rating # None /\ average_rating >= 4 * Unit THEN "upgrade"
    ELSE IF average_rating # None /\ average_rating < 2 * Unit THEN "downgrade"
    ELSE "keep"

IsDismissed(f) == f.action_taken = "dismissed"
IsActed(f) == f.action_taken = "acted"
IsRated(f) == f.rating # None
IsHelpful(f) == f.helpful = "true"

\* _calculate_pattern_metrics over the rows of one category (feedbacks # <<>>);
\* the stored rates are in hundredths, as round(x, 2) leaves them
CalculatePatternMetrics(category, feedbacks) ==
    LET total_shown == Len(feedbacks)
        total_dismissed == CountIf(feedbacks, IsDismissed)
        total_acted == CountIf(feedbacks, IsActed)
        total_rated == CountIf(feedbacks, IsRated)
        acceptance_rate == (100 * Unit * total_acted) \div total_shown
        dismissal_rate == (100 * Unit * total_dismissed) \div total_shown
        average_rating == IF total_rated > 0
                          THEN (SumRatings(feedbacks) * Unit) \div total_rated
                          ELSE None
        helpful_count == CountIf(feedbacks, IsHelpful)
        helpful_percentage == (100 * Unit * helpful_count) \div total_shown
        confidence_score == CalculateConfidence(total_shown, acceptance_rate,
                                                average_rating, helpful_percentage)
        recommendation == DetermineRecommendation(acceptance_rate, dismissal_rate,
                                                  average_rating, confidence_score)
    IN  [ insight_category |-> category,
          total_shown |-> total_shown,
          total_dismissed |-> total_dismissed,
          total_acted |-> total_acted,
          total_rated |-> total_rated,
          acceptance_rate |-> RoundDiv(10000 * total_acted, total_shown),
          dismissal_rate |-> RoundDiv(10000 * total_dismissed, total_shown),
          average_rating |-> IF average_rating # None
                             THEN RoundDiv(100 * SumRatings(feedbacks), total_rated)
                             ELSE None,
          helpful_percentage |-> RoundDiv(10000 * helpful_count, total_shown),
          confidence_score |-> RoundDiv(confidence_score, 100),
          recommendation |-> recommendation,
          auto_apply |-> (acceptance_rate > 80 * Unit /\ confidence_score > 80 * Unit),
          sample_size |-> total_shown ]

----------------------------------------------------------------------------
(* The persistence layer *)

NoPattern == [insight_category |-> "none"]
\* analyze_patterns(None): every category
NoCategory == "None"

RowKeys(rows) == {rows[i].key : i \in 1..Len(rows)}

\* upsert on the natural key (user, trip, insight): overwrite that row, or append
Upsert(rows, row) ==
    IF row.key \in RowKeys(rows)
    THEN [i \in 1..Len(rows) |-> IF rows[i].key = row.key THEN row ELSE rows[i]]
    ELSE Append(rows, row)

\* upsert of a Pattern row: one row per insight_category
UpsertPattern(table, pattern) ==
    [table EXCEPT ![pattern.insight_category] = pattern]

----------------------------------------------------------------------------
(* The Feedback Recorder and the Pattern Analyzer *)

InsertFeedback(rows, row) == Append(rows, row)

\* record_feedback's write
WriteFeedback(rows, row) == Upsert(rows, row)

\* the milestones of _check_and_trigger_analysis
Milestones == {10, 25, 50, 100, 250, 500, 1000}

\* the count _check_and_trigger_analysis reads back
CategoryCount(rows, category) == Len(SelectRows(rows, category))

\* the keys of analyze_patterns' categories dict, in insertion order: each
\* category at the place of its first row
RECURSIVE GroupCategories(_, _)
GroupCategories(rows, seen) ==
    LET unseen == {i \in 1..Len(rows) : rows[i].insight_category \notin seen}
    IN  IF unseen = {} THEN <<>>
        ELSE LET first == CHOOSE i \in unseen : \A j \in unseen : i <= j
                 cat == rows[first].insight_category
             IN  <<cat>> \o GroupCategories(rows, seen \cup {cat})

\* formatting None with a float format raises TypeError
FormatRaises(x) == x = None
\* "{x:.0f}" of a value kept in hundredths
Format0(x) == RoundDiv(x, 100)
\* "{x:.1f}" of a value kept in hundredths, in tenths
Format1(x) == RoundDiv(x, 10)

\* building the description in _consider_kb_learning raises
DescriptionRaises(pattern) ==
    /\ pattern.recommendation = "upgrade"
    /\ FormatRaises(pattern.acceptance_rate) \/ FormatRaises(pattern.average_rating)

\* the description _consider_kb_learning writes, as the numbers it formats
LearningDescription(pattern) ==
    IF pattern.recommendation = "upgrade"
    THEN [ text |-> "accept", rate |-> Format0(pattern.acceptance_rate),
           rating |-> Format1(pattern.average_rating) ]
    ELSE [ text |-> "dismiss", rate |-> Format0(pattern.dismissal_rate),
           rating |-> None ]

\* _generate_rule_yaml raises
RuleYamlRaises(pattern) ==
    \/ FormatRaises(pattern.confidence_score)
    \/ FormatRaises(pattern.acceptance_rate)
    \/ FormatRaises(pattern.average_rating)

\* _generate_rule_yaml, as the values it formats
GenerateRuleYaml(category, pattern) ==
    [ rule |-> category,
      pattern_confidence |-> Format0(pattern.confidence_score),
      acceptance_rate |-> Format0(pattern.acceptance_rate),
      average_rating |-> Format1(pattern.average_rating),
      action |-> pattern.recommendation,
      priority |-> IF pattern.recommendation = "upgrade" THEN "high"
                   ELSE IF pattern.recommendation = "downgrade" THEN "low"
                   ELSE "medium",
      auto_apply |-> pattern.auto_apply,
      learned_from |-> pattern.sample_size ]

NewLearning(rows, category, pattern) ==
    [ id |-> Len(rows) + 1,
      learning_type |-> "rule_adjustment",
      category |-> category,
      title |-> <<pattern.recommendation, category>>,
      description |-> LearningDescription(pattern),
      rule_yaml |-> GenerateRuleYaml(category, pattern),
      metrics |-> pattern,
      confidence_score |-> pattern.confidence_score,
      sample_size |-> pattern.sample_size,
      status |-> "pending",
      applied_to_kb |-> FALSE ]

ConsiderAnyRecommendation(rows, category, pattern) ==
    IF pattern.confidence_score < 7000 THEN rows
    ELSE IF DescriptionRaises(pattern) THEN rows
    ELSE IF RuleYamlRaises(pattern) THEN rows
    ELSE Append(rows, NewLearning(rows, category, pattern))

\* _consider_kb_learning: the kb_learnings table afterwards
ConsiderKbLearning(rows, category, pattern) ==
    IF pattern.confidence_score < 7000 THEN rows
    ELSE IF pattern.recommendation \notin {"upgrade", "disable"} THEN rows
    \* an exception while building the row is logged and swallowed
    ELSE IF DescriptionRaises(pattern) THEN rows
    ELSE IF RuleYamlRaises(pattern) THEN rows
    ELSE Append(rows, NewLearning(rows, category, pattern))

\* the loop of analyze_patterns over its categories
RECURSIVE AnalyzeCategories(_, _, _, _)
AnalyzeCategories(cats, feedback_data, pats, lrn) ==
    IF cats = <<>> THEN [patterns |-> pats, learnings |-> lrn]
    ELSE LET cat == Head(cats)
             pattern == CalculatePatternMetrics(cat, SelectRows(feedback_data, cat))
             pats2 == UpsertPattern(pats, pattern)
             lrn2 == IF pattern.confidence_score >= 7000
                     THEN ConsiderKbLearning(lrn, cat, pattern)
                     ELSE lrn
         IN  AnalyzeCategories(Tail(cats), feedback_data, pats2, lrn2)

\* analyze_patterns: the two tables afterwards and the categories analysed
AnalyzePatterns(insight_category, rows, pats, lrn) ==
    LET feedback_data == IF insight_category # NoCategory
                         THEN SelectRows(rows, insight_category)
                         ELSE rows
        cats == GroupCategories(feedback_data, {})
        out == AnalyzeCategories(cats, feedback_data, pats, lrn)
    IN  IF feedback_data = <<>>
        THEN [patterns |-> pats, learnings |-> lrn, results |-> {}]
        ELSE [patterns |-> out.patterns, learnings |-> out.learnings,
              results |-> {cats[i] : i \in 1..Len(cats)}]

\* _check_and_trigger_analysis
CheckAndTriggerAnalysis(category, rows, pats, lrn) ==
    IF CategoryCount(rows, category) \in Milestones
    THEN AnalyzePatterns(category, rows, pats, lrn)
    ELSE [patterns |-> pats, learnings |-> lrn, results |-> {}]

\* what submit_insight_feedback answers once record_feedback has returned: the
\* returned dict is the stored row, or {} after an exception, whose id is None
SubmitResponse(returned_id) == [success |-> TRUE, feedback_id |-> returned_id]
NoResponse == [success |-> FALSE, feedback_id |-> None]

NoFblog == [ ok |-> FALSE, category |-> "none", resubmitted |-> FALSE,
             before |-> 0, after |-> 0, analyzed |-> {}, response |-> NoResponse ]

FeedbackRow(key, category, payload) ==
    [ key |-> key, insight_category |-> category,
      action_taken |-> payload.action_taken,
      rating |-> payload.rating, helpful |-> payload.helpful ]

\* the category of the insight a key names: the insights of the first InitRows
\* keys are of the first category, those of the later keys alternate
CategoryOf(key) ==
    IF key <= InitRows \/ (key - InitRows) % 2 = 0
    THEN "accommodation_gap"
    ELSE "tight_timing"

\* what a client may send: a reaction to an insight it has not reacted to yet
\* (the next key), or a reaction to one it has reacted to: the same reaction
\* again, or for the insights added since the model started a changed one.  The
\* rows of a category the model starts with are alike, so the last of them
\* stands for all.
CanSend(key, category, payload) ==
    /\ category = CategoryOf(key)
    /\ \/ /\ key = Cardinality(RowKeys(feedback)) + 1
          /\ key <= InitKeys + MaxNew
       \/ /\ key \in RowKeys(feedback)
          /\ key >= InitRows
          /\ \/ FeedbackRow(key, category, payload) \in {feedback[i] : i \in 1..Len(feedback)}
             \/ key > InitKeys

\* record_feedback; dbOk = FALSE: the upsert raises, and the call returns {}
RecordFeedback(key, category, payload, dbOk) ==
    /\ CanSend(key, category, payload)
    /\ Len(feedback) <= InitKeys + MaxNew
    /\ LET row == FeedbackRow(key, category, payload)
           rows2 == IF dbOk THEN WriteFeedback(feedback, row) ELSE feedback
           out == IF dbOk
                  THEN CheckAndTriggerAnalysis(category, rows2, patterns, learnings)
                  ELSE [patterns |-> patterns, learnings |-> learnings, results |-> {}]
       IN  /\ Len(out.learnings) <= MaxLearnings
           /\ feedback' = rows2
           /\ patterns' = out.patterns
           /\ learnings' = out.learnings
           /\ fblog' = IF ~dbOk
                        THEN [NoFblog EXCEPT !.category = category,
                                             !.response = SubmitResponse(None)]
                        ELSE [ ok |-> TRUE, category |-> category,
                               resubmitted |-> (row \in {feedback[i] : i \in 1..Len(feedback)}),
                               before |-> CategoryCount(feedback, category),
                               after |-> CategoryCount(rows2, category),
                               analyzed |-> out.results,
                               response |-> SubmitResponse(key) ]
    /\ UNCHANGED <<kbFile, backups, upd, wlog, snap, prev, restVars>>

\* trigger_pattern_analysis -> analyze_patterns(category)
TriggerPatternAnalysis(category) ==
    /\ LET out == AnalyzePatterns(category, feedback, patterns, learnings)
       IN  /\ Len(out.learnings) <= MaxLearnings
           /\ patterns' = out.patterns
           /\ learnings' = out.learnings
    /\ fblog' = NoFblog
    /\ UNCHANGED <<feedback, kbFile, backups, upd, wlog, snap, prev, restVars>>

----------------------------------------------------------------------------
(* The Knowledge Document *)

\* a line of the document that is not the section heading
TextLine == [kind |-> "text"]
\* the line "## LEARNING & IMPROVEMENT"
MarkerLine == [kind |-> "marker"]

HasMarker(content) == \E i \in 1..Len(content) : content[i].kind = "marker"

\* where re.search finds the heading: the end of its first occurrence
InsertionPoint(content) ==
    CHOOSE i \in 1..Len(content) :
        /\ content[i].kind = "marker"
        /\ \A j \in 1..(i - 1) : content[j].kind # "marker"

\* _format_learning_entry raises: metrics.get('average_rating', 0) is None
EntryRaises(learning) ==
    \/ FormatRaises(learning.confidence_score)
    \/ FormatRaises(learning.metrics.average_rating)

\* _format_learning_entry, as the values it formats
FormatLearningEntry(learning) ==
    [ kind |-> "entry",
      title |-> learning.title,
      category |-> learning.category,
      confidence |-> Format0(learning.confidence_score),
      sample_size |-> learning.sample_size,
      learned |-> learning.id,
      description |-> learning.description,
      acceptance_rate |-> Format0(learning.metrics.acceptance_rate),
      dismissal_rate |-> Format0(learning.metrics.dismissal_rate),
      average_rating |-> Format1(learning.metrics.average_rating),
      recommendation |-> learning.metrics.recommendation,
      rule_yaml |-> learning.rule_yaml ]

\* _apply_learning_to_kb: (updated_content, success)
ApplyLearningToKb(kb_content, learning) ==
    IF ~HasMarker(kb_content) \/ EntryRaises(learning)
    THEN [content |-> kb_content, success |-> FALSE]
    ELSE LET insertion_point == InsertionPoint(kb_content)
         IN  [ content |-> SubSeq(kb_content, 1, insertion_point)
                           \o <<FormatLearningEntry(learning)>>
                           \o SubSeq(kb_content, insertion_point + 1, Len(kb_content)),
               success |-> TRUE ]

----------------------------------------------------------------------------
(* The Knowledge Base Updater's query *)

SelectAnyUnapplied(row) == row.applied_to_kb = FALSE

SelectApprovedAlways(row) == row.status = "approved"

\* .eq('status', 'approved').eq('applied_to_kb', False)
SelectForUpdate(row) == row.status = "approved" /\ row.applied_to_kb = FALSE

\* row put into a list that is in descending order of confidence_score, behind
\* the rows that are its equals
RECURSIVE InsertByConfidence(_, _)
InsertByConfidence(sorted, row) ==
    IF sorted = <<>> THEN <<row>>
    ELSE IF Head(sorted).confidence_score >= row.confidence_score
         THEN <<Head(sorted)>> \o InsertByConfidence(Tail(sorted), row)
         ELSE <<row>> \o sorted

\* the rows the updater loads: .order('confidence_score', desc=True)
RECURSIVE QueryLearnings(_)
QueryLearnings(rows) ==
    IF rows = <<>> THEN <<>>
    ELSE LET rest == QueryLearnings(SubSeq(rows, 1, Len(rows) - 1))
             last == rows[Len(rows)]
         IN  IF SelectForUpdate(last) THEN InsertByConfidence(rest, last) ELSE rest

\* .update({'applied_to_kb': True, ...}).eq('id', id)
MarkApplied(rows, id) ==
    [i \in 1..Len(rows) |->
        IF rows[i].id = id THEN [rows[i] EXCEPT !.applied_to_kb = TRUE] ELSE rows[i]]

\* approve_kb_learning's update
MarkApproved(rows, id) ==
    [i \in 1..Len(rows) |->
        IF rows[i].id = id THEN [rows[i] EXCEPT !.status = "approved"] ELSE rows[i]]

----------------------------------------------------------------------------
(* update_kb_with_learnings, one step per database or file operation *)

NoRet == [error |-> "pending", applied |-> 0, learnings |-> <<>>]

IdleUpd ==
    [ pc |-> "idle", dry_run |-> FALSE, learnings |-> <<>>, kb_content |-> <<>>,
      applied_count |-> 0, applied_learnings |-> <<>>, i |-> 1, ret |-> NoRet ]

NoSnap == [learnings |-> <<>>, kbFile |-> [exists |-> FALSE, content |-> <<>>],
           backups |-> {}]

AllIdle == \A u \in Updaters : upd[u].pc = "idle"

\* the except clause: {'error': str(e), 'applied': 0}
Raise(r, message) ==
    [r EXCEPT !.pc = "done",
              !.ret = [error |-> message, applied |-> 0, learnings |-> <<>>]]

\* the return at the end of the try block
Return(r) ==
    [r EXCEPT !.pc = "done",
              !.ret = [ error |-> "none", applied |-> r.applied_count,
                        learnings |-> r.applied_learnings ]]

BackupFailureIgnored(r, message) == [r EXCEPT !.pc = "write"]

\* an exception of the backup's open or write leaves the try block
BackupFailure(r, message) == Raise(r, message)

MarksAppliedAlways(dry_run) == TRUE

\* "if not dry_run:" in the loop
MarksApplied(dry_run) == ~dry_run

\* "if not dry_run and applied_count > 0:" after the loop
WritesFile(dry_run, applied_count) == ~dry_run /\ applied_count > 0

\* the call begins
UStart(u, dry_run) ==
    /\ upd[u].pc = "idle"
    /\ upd' = [upd EXCEPT ![u] = [IdleUpd EXCEPT !.pc = "query", !.dry_run = dry_run]]
    /\ wlog' = [wlog EXCEPT ![u] = <<>>]
    /\ snap' = [snap EXCEPT ![u] = [learnings |-> learnings, kbFile |-> kbFile,
                                    backups |-> backups]]
    /\ UNCHANGED <<feedback, patterns, learnings, kbFile, backups, prev, fblog, restVars>>

\* the query for the approved learnings not yet applied
UQuery(u, dbOk) ==
    /\ upd[u].pc = "query"
    /\ LET rows == QueryLearnings(learnings)
       IN  upd' = [upd EXCEPT ![u] =
                     IF ~dbOk THEN Raise(@, "query failed")
                     ELSE IF rows = <<>> THEN Return(@)
                     ELSE [@ EXCEPT !.pc = "read", !.learnings = rows]]
    /\ UNCHANGED <<feedback, patterns, learnings, kbFile, backups, wlog, snap, prev, fblog, restVars>>

\* os.path.exists and the read of the document
URead(u, ioOk) ==
    /\ upd[u].pc = "read"
    /\ upd' = [upd EXCEPT ![u] =
                 IF ~kbFile.exists
                 THEN [@ EXCEPT !.pc = "done",
                                !.ret = [error |-> "KB file not found", applied |-> 0,
                                         learnings |-> <<>>]]
                 ELSE IF ~ioOk THEN Raise(@, "read failed")
                 ELSE [@ EXCEPT !.pc = "loop", !.kb_content = kbFile.content]]
    /\ UNCHANGED <<feedback, patterns, learnings, kbFile, backups, wlog, snap, prev, fblog, restVars>>

\* one iteration of the loop over the loaded learnings
ULoop(u, dbOk) ==
    /\ upd[u].pc = "loop"
    /\ LET r == upd[u]
           learning == r.learnings[r.i]
           res == ApplyLearningToKb(r.kb_content, learning)
           marks == res.success /\ MarksApplied(r.dry_run)
           r2 == IF res.success
                 THEN [r EXCEPT !.kb_content = res.content,
                                !.applied_count = @ + 1,
                                !.applied_learnings = Append(@, learning.id),
                                !.i = @ + 1]
                 ELSE [r EXCEPT !.i = @ + 1]
           r3 == IF r2.i <= Len(r2.learnings) THEN r2
                 ELSE IF WritesFile(r2.dry_run, r2.applied_count)
                      THEN [r2 EXCEPT !.pc = "backup"]
                      ELSE Return(r2)
       IN  /\ dbOk \/ marks
           /\ IF marks /\ ~dbOk
              THEN /\ upd' = [upd EXCEPT ![u] = Raise(r2, "update failed")]
                   /\ UNCHANGED <<learnings, wlog>>
              ELSE /\ upd' = [upd EXCEPT ![u] = r3]
                   /\ learnings' = IF marks THEN MarkApplied(learnings, learning.id)
                                   ELSE learnings
                   /\ wlog' = IF marks
                              THEN [wlog EXCEPT ![u] = Append(@, <<"flag", learning.id>>)]
                              ELSE wlog
    /\ UNCHANGED <<feedback, patterns, kbFile, backups, snap, prev, fblog, restVars>>

IoOutcomes == {"ok", "open fails", "write fails"}

\* the backup: open(backup_path, 'w'), then write(_read_original_kb())
UBackup(u, outcome) ==
    /\ upd[u].pc = "backup"
    /\ outcome \in IoOutcomes
    /\ IF outcome = "ok"
       THEN /\ backups' = backups \cup {kbFile.content}
            /\ upd' = [upd EXCEPT ![u].pc = "write"]
            /\ wlog' = [wlog EXCEPT ![u] = Append(@, <<"backup", 0>>)]
       ELSE \* after a failed write the backup file exists and is empty
            /\ backups' = IF outcome = "write fails" THEN backups \cup {<<>>} ELSE backups
            /\ upd' = [upd EXCEPT ![u] = BackupFailure(@, "backup failed")]
            /\ wlog' = [wlog EXCEPT ![u] = Append(@, <<"backup failed", 0>>)]
    /\ UNCHANGED <<feedback, patterns, learnings, kbFile, snap, prev, fblog, restVars>>

\* the document: open(kb_path, 'w'), then write(kb_content)
UWrite(u, outcome) ==
    /\ upd[u].pc = "write"
    /\ outcome \in IoOutcomes
    /\ IF outcome = "ok"
       THEN /\ kbFile' = [exists |-> TRUE, content |-> upd[u].kb_content]
            /\ upd' = [upd EXCEPT ![u] = Return(@)]
            /\ wlog' = [wlog EXCEPT ![u] = Append(@, <<"kb", 0>>)]
       ELSE \* open(.., 'w') has truncated the document when the write fails
            /\ kbFile' = IF outcome = "write fails"
                         THEN [exists |-> TRUE, content |-> <<>>]
                         ELSE kbFile
            /\ upd' = [upd EXCEPT ![u] = Raise(@, "write failed")]
            /\ wlog' = [wlog EXCEPT ![u] = Append(@, <<"kb failed", 0>>)]
    /\ UNCHANGED <<feedback, patterns, learnings, backups, snap, prev, fblog, restVars>>

\* the result goes back to the caller
UReturn(u) ==
    /\ upd[u].pc = "done"
    /\ upd' = [upd EXCEPT ![u] = IdleUpd]
    /\ wlog' = [wlog EXCEPT ![u] = <<>>]
    /\ snap' = [snap EXCEPT ![u] = NoSnap]
    /\ prev' = IF upd[u].dry_run THEN prev
               ELSE [ ran |-> TRUE, error |-> upd[u].ret.error,
                      applied |-> upd[u].ret.applied,
                      approved |-> FALSE, kbFile |-> kbFile ]
    /\ UNCHANGED <<feedback, patterns, learnings, kbFile, backups, fblog, restVars>>

\* approve_kb_learning
ApproveKbLearning(learning_id) ==
    /\ learning_id \in 1..Len(learnings)
    /\ learnings' = MarkApproved(learnings, learning_id)
    /\ prev' = IF prev.ran THEN [prev EXCEPT !.approved = TRUE] ELSE prev
    /\ UNCHANGED <<feedback, patterns, kbFile, backups, upd, wlog, snap, fblog, restVars>>

----------------------------------------------------------------------------
(* analyze_patterns, write by write *)

\* the locals of an analyze_patterns call, and for the properties: the tables as
\* the call found them (was), the categories whose Pattern it stored (stored),
\* whether one of its writes failed (write_failed) and whether it returned {}
\* from its except clause (raised)
IdleAn ==
    [ pc |-> "idle", insight_category |-> NoCategory, feedback_data |-> <<>>,
      cats |-> <<>>, pattern |-> NoPattern, results |-> {}, stored |-> {},
      write_failed |-> FALSE, raised |-> FALSE,
      was |-> [patterns |-> <<>>, learnings |-> <<>>] ]

\* the except clause of analyze_patterns: log, return {}
AnRaise(a) == [a EXCEPT !.pc = "done", !.results = {}, !.raised = TRUE]

\* the loop moves on to the next category, or the call returns results
AnAdvance(a) ==
    IF Len(a.cats) > 1
    THEN [a EXCEPT !.pc = "upsert", !.cats = Tail(a.cats), !.pattern = NoPattern]
    ELSE [a EXCEPT !.pc = "done", !.cats = <<>>, !.pattern = NoPattern]

\* the single read of the feedback table, and the grouping by category
AnStart(insight_category, dbOk) ==
    /\ an.pc = "idle"
    /\ Len(learnings) + Cardinality(Categories) <= MaxLearnings
    /\ LET feedback_data == IF insight_category # NoCategory
                            THEN SelectRows(feedback, insight_category)
                            ELSE feedback
           a == [IdleAn EXCEPT !.insight_category = insight_category,
                               !.was = [patterns |-> patterns, learnings |-> learnings]]
       IN  an' = IF ~dbOk THEN AnRaise(a)
                 ELSE IF feedback_data = <<>> THEN [a EXCEPT !.pc = "done"]
                 ELSE [a EXCEPT !.pc = "upsert", !.feedback_data = feedback_data,
                                !.cats = GroupCategories(feedback_data, {})]
    /\ UNCHANGED <<feedback, patterns, learnings, kbFile, backups, upd, wlog, snap,
                   prev, fblog, recorder, calc, det, ai>>

\* the same turn, had it read the category's rows again instead of using the
\* rows of the call's one read
AnUpsertRereading(dbOk) ==
    /\ an.pc = "upsert"
    /\ LET cat == Head(an.cats)
           pattern == CalculatePatternMetrics(cat, SelectRows(feedback, cat))
           a == [an EXCEPT !.results = @ \cup {cat}, !.stored = @ \cup {cat},
                           !.pattern = pattern]
       IN  IF ~dbOk
           THEN /\ an' = AnRaise([an EXCEPT !.write_failed = TRUE])
                /\ UNCHANGED patterns
           ELSE /\ patterns' = UpsertPattern(patterns, pattern)
                /\ an' = IF pattern.confidence_score >= 7000
                          THEN [a EXCEPT !.pc = "consider"]
                          ELSE AnAdvance(a)
    /\ UNCHANGED <<feedback, learnings, kbFile, backups, upd, wlog, snap, prev, fblog,
                   recorder, calc, det, ai>>

\* one turn of the loop up to the Pattern upsert; a failed upsert ends the call
AnUpsert(dbOk) ==
    /\ an.pc = "upsert"
    /\ LET cat == Head(an.cats)
           pattern == CalculatePatternMetrics(cat, SelectRows(an.feedback_data, cat))
           a == [an EXCEPT !.results = @ \cup {cat}, !.stored = @ \cup {cat},
                           !.pattern = pattern]
       IN  IF ~dbOk
           THEN /\ an' = AnRaise([an EXCEPT !.write_failed = TRUE])
                /\ UNCHANGED patterns
           ELSE /\ patterns' = UpsertPattern(patterns, pattern)
                /\ an' = IF pattern.confidence_score >= 7000
                          THEN [a EXCEPT !.pc = "consider"]
                          ELSE AnAdvance(a)
    /\ UNCHANGED <<feedback, learnings, kbFile, backups, upd, wlog, snap, prev, fblog, recorder,
                   calc, det, ai>>

\* _consider_kb_learning for the Pattern just stored; a failed insert is logged
\* inside it and the loop goes on
AnConsider(dbOk) ==
    /\ an.pc = "consider"
    /\ LET cat == Head(an.cats)
           rows == ConsiderKbLearning(learnings, cat, an.pattern)
       IN  /\ learnings' = IF dbOk THEN rows ELSE learnings
           /\ an' = AnAdvance([an EXCEPT !.write_failed =
                                             @ \/ (~dbOk /\ rows # learnings)])
    /\ UNCHANGED <<feedback, patterns, kbFile, backups, upd, wlog, snap, prev, fblog, recorder,
                   calc, det, ai>>

\* the call has returned
AnReturn ==
    /\ an.pc = "done"
    /\ an' = IdleAn
    /\ UNCHANGED <<feedback, patterns, learnings, kbFile, backups, upd, wlog, snap,
                   prev, fblog, recorder, calc, det, ai>>

----------------------------------------------------------------------------
(* record_feedback, query by query *)

\* the clients whose record_feedback calls run side by side
Recorders == {"r1", "r2"}

\* the locals of a record_feedback call, and for the properties: the category's
\* count when the call began (before), the count _check_and_trigger_analysis
\* read back (count), whether it called analyze_patterns (triggered) and
\* whether one of its queries raised (raised)
IdleRec ==
    [ pc |-> "idle", key |-> 0, insight_category |-> NoCategory, before |-> 0,
      count |-> None, triggered |-> FALSE, raised |-> FALSE ]

\* the natural key each client reacts to: an insight nobody has reacted to yet,
\* and not the other client's
RecKey(r) == IF r = "r1" THEN InitRows + 1 ELSE InitRows + 2

\* record_feedback down to its upsert; dbOk = FALSE: the upsert raises, and the
\* call returns {} from its except clause
RecWrite(r, category, payload, dbOk) ==
    /\ recorder[r].pc = "idle"
    /\ LET row == FeedbackRow(RecKey(r), category, payload)
       IN  /\ feedback' = IF dbOk THEN WriteFeedback(feedback, row) ELSE feedback
           /\ recorder' = [recorder EXCEPT ![r] =
                        [IdleRec EXCEPT !.pc = IF dbOk THEN "written" ELSE "done",
                                        !.key = row.key,
                                        !.insight_category = category,
                                        !.before = CategoryCount(feedback, category),
                                        !.raised = ~dbOk]]
    /\ UNCHANGED <<patterns, learnings, kbFile, backups, upd, wlog, snap, prev, fblog,
                   an, calc, det, ai>>

\* the rest of the call: _check_and_trigger_analysis counts the category's rows
\* as they are now and analyses at a milestone; dbOk = FALSE: the count query
\* raises, which is logged
RecCheck(r, dbOk) ==
    /\ recorder[r].pc = "written"
    /\ LET category == recorder[r].insight_category
           count == CategoryCount(feedback, category)
           out == IF dbOk
                  THEN CheckAndTriggerAnalysis(category, feedback, patterns, learnings)
                  ELSE [patterns |-> patterns, learnings |-> learnings, results |-> {}]
       IN  /\ Len(out.learnings) <= MaxLearnings
           /\ patterns' = out.patterns
           /\ learnings' = out.learnings
           /\ recorder' = [recorder EXCEPT ![r].pc = "done",
                                 ![r].count = IF dbOk THEN count ELSE None,
                                 ![r].triggered = dbOk /\ count \in Milestones,
                                 ![r].raised = ~dbOk]
    /\ UNCHANGED <<feedback, kbFile, backups, upd, wlog, snap, prev, fblog,
                   an, calc, det, ai>>

----------------------------------------------------------------------------
(* Calls of the Analyzer's pure functions *)

\* the function called, the arguments of its successive calls, and the results
\* of the calls made so far
NoCalc == [fn |-> "none", args |-> <<>>, out |-> <<>>]

\* _determine_recommendation(acceptance_rate, dismissal_rate, average_rating,
\* confidence_score)
DetermineRecommendationCall ==
    /\ calc.fn = "_determine_recommendation"
    /\ Len(calc.out) < Len(calc.args)
    /\ LET a == calc.args[Len(calc.out) + 1]
       IN  calc' = [calc EXCEPT !.out =
                       Append(@, DetermineRecommendation(a.acceptance_rate,
                                     a.dismissal_rate, a.average_rating,
                                     a.confidence_score))]
    /\ UNCHANGED <<feedback, patterns, learnings, kbFile, backups, upd, wlog, snap,
                   prev, fblog, recorder, an, det, ai>>

\* _calculate_pattern_metrics(category, feedbacks)
CalculatePatternMetricsCall ==
    /\ calc.fn = "_calculate_pattern_metrics"
    /\ Len(calc.out) < Len(calc.args)
    /\ LET a == calc.args[Len(calc.out) + 1]
       IN  calc' = [calc EXCEPT !.out =
                       Append(@, CalculatePatternMetrics(a.category, a.feedbacks))]
    /\ UNCHANGED <<feedback, patterns, learnings, kbFile, backups, upd, wlog, snap,
                   prev, fblog, recorder, an, det, ai>>

----------------------------------------------------------------------------
(* The Detector: InsightsDetector *)

\* minutes in an hour: the unit of time of the model is the minute
Hour == 60

\* A timestamp field of a trip or an element.  The key is absent, its value is
\* null, or it is an ISO string: wall-clock time local, and when the string
\* carries a UTC offset (aware) the offset off, both in minutes.
NoTime == [kind |-> "absent", local |-> 0, aware |-> FALSE, off |-> 0]
NullTime == [kind |-> "null", local |-> 0, aware |-> FALSE, off |-> 0]
Naive(local) == [kind |-> "time", local |-> local, aware |-> FALSE, off |-> 0]
Aware(local, off) == [kind |-> "time", local |-> local, aware |-> TRUE, off |-> off]

\* _parse_datetime: a datetime, or None (here NullTime)
ParseDatetime(v) == IF v.kind = "time" THEN v ELSE NullTime
\* the truth value of a parsed datetime, or of a raw field
IsTime(v) == v.kind = "time"

\* comparing or subtracting an aware and a naive datetime raises TypeError
Mixed(a, b) == a.aware # b.aware
\* (a - b).total_seconds(), in minutes
Minutes(a, b) == (a.local - a.off) - (b.local - b.off)
Later(a, b) == Minutes(a, b) > 0

\* The sort keys e.get(field, ''): '' for an absent key, None for a null, else
\* the string.  Strings compare by characters: by wall-clock time first, then
\* by the offset suffix ('' < '+hh:mm' < '-hh:mm').
SuffixRank(v) ==
    IF ~v.aware THEN 0 ELSE IF v.off >= 0 THEN 1 + v.off ELSE 100 * Hour - v.off
KeyLess(a, b) ==
    IF a.kind = "absent" THEN b.kind # "absent"
    ELSE IF b.kind = "absent" THEN FALSE
    ELSE \/ a.local < b.local
         \/ a.local = b.local /\ SuffixRank(a) < SuffixRank(b)
\* sorted, min and max compare every key they are given: a None raises TypeError
KeysRaise(list, field) ==
    Len(list) >= 2 /\ \E i \in 1..Len(list) : list[i][field].kind = "null"
\* min(list, key=...) and max(list, key=...): the first of the least, of the greatest
MinBy(list, field) ==
    list[CHOOSE i \in 1..Len(list) :
            /\ \A j \in 1..Len(list) : ~KeyLess(list[j][field], list[i][field])
            /\ \A j \in 1..(i - 1) : KeyLess(list[i][field], list[j][field])]
MaxBy(list, field) ==
    list[CHOOSE i \in 1..Len(list) :
            /\ \A j \in 1..Len(list) : ~KeyLess(list[i][field], list[j][field])
            /\ \A j \in 1..(i - 1) : KeyLess(list[j][field], list[i][field])]

OfType(elements, type) == SelectSeq(elements, LAMBDA e : e.type = type)

\* an insight: its id (a name and the element ids in it), type, severity, title
Title(text) == [text |-> text, casing |-> "capitalized"]
Insight(name, a, b, type, severity, text) ==
    [ id |-> [name |-> name, a |-> a, b |-> b], type |-> type,
      severity |-> severity, title |-> Title(text) ]

\* an accommodation_gap insight: its description tells int(gap_hours)
GapInsight(name, text, hours) ==
    [ id |-> [name |-> name, a |-> 0, b |-> 0], type |-> "accommodation_gap",
      severity |-> "critical", title |-> Title(text), hours |-> hours ]

\* what a detection method does: raises, or returns a list of insights
Raises == [raised |-> TRUE, insights |-> <<>>]
Returns(insights) == [raised |-> FALSE, insights |-> insights]

\* _detect_accommodation_gaps
DetectAccommodationGaps(trip, accommodations, flights) ==
    LET trip_start == ParseDatetime(trip.start_date)
        trip_end == ParseDatetime(trip.end_date)
        first_flight == MinBy(flights, "end_time")
        arrival_time == IF flights # <<>> /\ IsTime(first_flight.end_time)
                        THEN ParseDatetime(first_flight.end_time) ELSE trip_start
        last_flight == MaxBy(flights, "start_time")
        departure_time == IF flights # <<>> /\ IsTime(last_flight.start_time)
                          THEN ParseDatetime(last_flight.start_time) ELSE trip_end
        first_hotel == MinBy(accommodations, "start_time")
        first_checkin == ParseDatetime(first_hotel.start_time)
        last_hotel == MaxBy(accommodations, "end_time")
        last_checkout == ParseDatetime(last_hotel.end_time)
        arrival == IF IsTime(first_checkin)
                      /\ Minutes(first_checkin, arrival_time) > 6 * Hour
                   THEN << GapInsight("accommodation_gap_arrival",
                               "missing accommodation",
                               Minutes(first_checkin, arrival_time) \div Hour) >>
                   ELSE <<>>
        departure == IF IsTime(last_checkout)
                        /\ Minutes(departure_time, last_checkout) > 6 * Hour
                     THEN << GapInsight("accommodation_gap_departure",
                                 "accommodation gap before departure",
                                 Minutes(departure_time, last_checkout) \div Hour) >>
                     ELSE <<>>
    IN  IF accommodations = <<>> THEN Returns(<<>>)
        ELSE IF ~IsTime(trip_start) \/ ~IsTime(trip_end) THEN Returns(<<>>)
        ELSE IF \/ KeysRaise(flights, "end_time")
                \/ KeysRaise(flights, "start_time")
                \/ KeysRaise(accommodations, "start_time")
                \/ IsTime(first_checkin) /\ Mixed(first_checkin, arrival_time)
                \/ KeysRaise(accommodations, "end_time")
                \/ IsTime(last_checkout) /\ Mixed(departure_time, last_checkout)
             THEN Raises
        ELSE Returns(arrival \o departure)

\* the mutant of _bookings_conflict: bookings that touch conflict
BookingsConflictClosed(booking1, booking2) ==
    LET start1 == ParseDatetime(booking1.start_time)
        end1 == ParseDatetime(booking1.end_time)
        start2 == ParseDatetime(booking2.start_time)
        end2 == ParseDatetime(booking2.end_time)
    IN  IF ~(IsTime(start1) /\ IsTime(end1) /\ IsTime(start2) /\ IsTime(end2))
        THEN "false"
        ELSE IF Mixed(start1, end2) THEN "raises"
        ELSE IF Later(start1, end2) THEN "false"
        ELSE IF Mixed(start2, end1) THEN "raises"
        ELSE IF ~Later(start2, end1) THEN "true" ELSE "false"

\* _bookings_conflict: "raises", or the truth value returned
BookingsConflict(booking1, booking2) ==
    LET start1 == ParseDatetime(booking1.start_time)
        end1 == ParseDatetime(booking1.end_time)
        start2 == ParseDatetime(booking2.start_time)
        end2 == ParseDatetime(booking2.end_time)
    IN  IF ~(IsTime(start1) /\ IsTime(end1) /\ IsTime(start2) /\ IsTime(end2))
        THEN "false"
        ELSE IF Mixed(start1, end2) THEN "raises"
        ELSE IF ~Later(end2, start1) THEN "false"
        ELSE IF Mixed(start2, end1) THEN "raises"
        ELSE IF Later(end1, start2) THEN "true" ELSE "false"

\* the pairs (i, j), i < j, of the positions of a list, in the order of the two loops
Pairs(n) ==
    SelectSeq([k \in 1..(n * n) |-> <<((k - 1) \div n) + 1, ((k - 1) % n) + 1>>],
              LAMBDA pair : pair[1] < pair[2])

\* one of the two loops of _detect_conflicting_primary_bookings
ConflictsAmong(bookings, name, text) ==
    LET pairs == Pairs(Len(bookings))
        Verdict(pair) == BookingsConflict(bookings[pair[1]], bookings[pair[2]])
        conflicting == SelectSeq(pairs, LAMBDA pair : Verdict(pair) = "true")
    IN  IF \E k \in 1..Len(pairs) : Verdict(pairs[k]) = "raises" THEN Raises
        ELSE Returns([k \in 1..Len(conflicting) |->
                         Insight(name, bookings[conflicting[k][1]].id,
                                 bookings[conflicting[k][2]].id,
                                 "conflicting_booking", "critical", text)])

\* _detect_conflicting_primary_bookings
DetectConflictingPrimaryBookings(accommodations, flights) ==
    LET hotels == ConflictsAmong(accommodations, "conflicting_hotels",
                                 "conflicting hotel bookings")
        planes == ConflictsAmong(flights, "conflicting_flights",
                                 "conflicting flight bookings")
    IN  IF hotels.raised \/ planes.raised THEN Raises
        ELSE Returns(hotels.insights \o planes.insights)

\* _detect_missing_airport_transportation
DetectMissingAirportTransportation(accommodations, flights, transportation) ==
    LET first_flight == MinBy(flights, "end_time")
        flight_arrival == ParseDatetime(first_flight.end_time)
        first_hotel == MinBy(accommodations, "start_time")
        hotel_checkin == ParseDatetime(first_hotel.start_time)
        Near(t) == LET d == Minutes(t.start_time, flight_arrival)
                   IN  d < 4 * Hour /\ 0 - d < 4 * Hour
        \* any(...) stops at the first transportation within 4 hours
        decisive == {i \in 1..Len(transportation) :
                        /\ IsTime(transportation[i].start_time)
                        /\ \/ Mixed(transportation[i].start_time, flight_arrival)
                           \/ Near(transportation[i])}
        first == CHOOSE i \in decisive : \A j \in decisive : i <= j
        has_transport == decisive # {}
    IN  IF flights = <<>> \/ accommodations = <<>> THEN Returns(<<>>)
        ELSE IF KeysRaise(flights, "end_time") THEN Raises
        ELSE IF ~IsTime(flight_arrival) THEN Returns(<<>>)
        ELSE IF KeysRaise(accommodations, "start_time") THEN Raises
        ELSE IF decisive # {}
                /\ Mixed(transportation[first].start_time, flight_arrival)
             THEN Raises
        ELSE IF ~has_transport /\ IsTime(hotel_checkin)
             THEN Returns(<< Insight("missing_airport_transport", 0, 0,
                                     "missing_transportation", "critical",
                                     "no airport transportation scheduled") >>)
        ELSE Returns(<<>>)

\* _detect_impossible_logistics
DetectImpossibleLogistics(flights, dining, activities) ==
    LET first_flight == MinBy(flights, "end_time")
        arrival == ParseDatetime(first_flight.end_time)
        events == dining \o activities
        timed == SelectSeq(events, LAMBDA e : IsTime(e.start_time))
        early == SelectSeq(timed, LAMBDA e : Later(arrival, e.start_time))
    IN  IF flights = <<>> THEN Returns(<<>>)
        ELSE IF KeysRaise(flights, "end_time") THEN Raises
        ELSE IF ~IsTime(arrival) THEN Returns(<<>>)
        ELSE IF \E k \in 1..Len(timed) : Mixed(timed[k].start_time, arrival)
             THEN Raises
        ELSE Returns([k \in 1..Len(early) |->
                         Insight("impossible_timing", early[k].id, 0,
                                 "impossible_logistics", "critical",
                                 "event before arrival")])

\* _detect_tight_timing
DetectTightTiming(accommodations, flights) ==
    LET last_hotel == MaxBy(accommodations, "end_time")
        checkout == ParseDatetime(last_hotel.end_time)
        timed == SelectSeq(flights, LAMBDA f : IsTime(f.start_time))
        departure_flights ==
            IF IsTime(checkout)
            THEN SelectSeq(timed, LAMBDA f : Later(f.start_time, checkout))
            ELSE <<>>
        next_flight == MinBy(departure_flights, "start_time")
        flight_time == ParseDatetime(next_flight.start_time)
        gap == Minutes(flight_time, checkout)
    IN  IF accommodations = <<>> \/ flights = <<>> THEN Returns(<<>>)
        ELSE IF KeysRaise(accommodations, "end_time") THEN Raises
        ELSE IF IsTime(checkout)
                /\ \E k \in 1..Len(timed) : Mixed(timed[k].start_time, checkout)
             THEN Raises
        ELSE IF departure_flights # <<>> /\ Hour < gap /\ gap < 3 * Hour
             THEN Returns(<< Insight("tight_timing_checkout_flight", 0, 0,
                                     "tight_timing", "warning",
                                     "tight timing on departure day") >>)
        ELSE Returns(<<>>)

\* _detect_missing_meals
DetectMissingMeals(trip, dining) ==
    LET trip_start == ParseDatetime(trip.start_date)
        trip_end == ParseDatetime(trip.end_date)
        trip_days == Minutes(trip_end, trip_start) \div (24 * Hour)
    IN  IF ~IsTime(trip_start) \/ ~IsTime(trip_end) THEN Returns(<<>>)
        ELSE IF Mixed(trip_end, trip_start) THEN Raises
        ELSE IF trip_days >= 2 /\ Len(dining) = 0
             THEN Returns(<< Insight("missing_meals", 0, 0, "missing_element",
                                     "info", "no dining reservations") >>)
        ELSE Returns(<<>>)

EmptyInsights ==
    [action_required |-> <<>>, recommendations |-> <<>>, good_to_know |-> <<>>]

\* analyze: "raised", or the three buckets
Analyze(trip, elements) ==
    LET accommodations == OfType(elements, "accommodation")
        flights == OfType(elements, "flight")
        transportation == OfType(elements, "transportation")
        dining == OfType(elements, "dining")
        activities == OfType(elements, "activity")
        gaps == DetectAccommodationGaps(trip, accommodations, flights)
        conflicts == DetectConflictingPrimaryBookings(accommodations, flights)
        transport == DetectMissingAirportTransportation(accommodations, flights,
                                                        transportation)
        logistics == DetectImpossibleLogistics(flights, dining, activities)
        tight == DetectTightTiming(accommodations, flights)
        meals == DetectMissingMeals(trip, dining)
    IN  IF \/ gaps.raised \/ conflicts.raised \/ transport.raised
           \/ logistics.raised \/ tight.raised \/ meals.raised
        THEN [raised |-> TRUE, insights |-> EmptyInsights]
        ELSE [ raised |-> FALSE,
               insights |->
                 [ action_required |-> gaps.insights \o conflicts.insights
                                       \o transport.insights \o logistics.insights,
                   recommendations |-> tight.insights \o meals.insights,
                   good_to_know |-> <<>> ] ]

\* a Detector: not made yet (none), made (built), its analyze has returned
\* (analyzed), or the constructor or analyze raised (raised)
NoDet == [pc |-> "none", trip |-> [start_date |-> NoTime, end_date |-> NoTime],
          elements |-> <<>>, insights |-> EmptyInsights]

\* InsightsDetector(trip, elements): sorts the elements by start_time
DetectorInit ==
    /\ det.pc = "new"
    /\ det' = [det EXCEPT !.pc = IF KeysRaise(det.elements, "start_time")
                                  THEN "raised" ELSE "built"]
    /\ UNCHANGED <<feedback, patterns, learnings, kbFile, backups, upd, wlog, snap,
                   prev, fblog, recorder, an, calc, ai>>

\* detector.analyze()
DetectorAnalyze ==
    /\ det.pc = "built"
    /\ LET out == Analyze(det.trip, det.elements)
       IN  det' = [det EXCEPT !.pc = IF out.raised THEN "raised" ELSE "analyzed",
                              !.insights = out.insights]
    /\ UNCHANGED <<feedback, patterns, learnings, kbFile, backups, upd, wlog, snap,
                   prev, fblog, recorder, an, calc, ai>>

----------------------------------------------------------------------------
(* The AI Enhancer *)

\* the service's answer and the values json.loads makes of it: a value has a
\* kind; "raises" is a call that fails, "none" an answer without content,
\* "invalid" a content that is not JSON, "absent" a key an object lacks
Json(kind) == [kind |-> kind]
Str(text, casing) == [kind |-> "string", text |-> text, casing |-> casing]
Array(items) == [kind |-> "array", items |-> items]
Rec(title) == [kind |-> "object", title |-> title]
Response(recommendations, good_to_know) ==
    [ kind |-> "object", recommendations |-> recommendations,
      good_to_know |-> good_to_know ]

\* str.lower(): the same text, in lower case
Lower(title) == Str(title.text, "lower")

\* what a for loop can run over, and the items it runs over: the items of a
\* list, the characters of a string
Iterable(value) == value.kind \in {"array", "string"}
Iterate(value) ==
    CASE value.kind = "array" -> value.items
      [] value.kind = "string" /\ value.text = "" -> <<>>
      [] value.kind = "string" /\ value.text = "no" ->
             << Str("n", value.casing), Str("o", value.casing) >>

\* dict.get(key, []) on the parsed object
GetList(value) == IF value.kind = "absent" THEN Array(<<>>) ELSE value

\* _parse_ai_response: only a JSONDecodeError is caught
ParseAiResponse(content) ==
    CASE content.kind = "invalid" ->
             Returns([recommendations |-> Array(<<>>), good_to_know |-> Array(<<>>)])
      [] content.kind = "object" ->
             Returns([ recommendations |-> GetList(content.recommendations),
                       good_to_know |-> GetList(content.good_to_know) ])
      [] OTHER -> Raises

\* rec.get('title', '')
GetTitle(rec) == IF rec.title.kind = "absent" THEN Str("", "lower") ELSE rec.title

\* the mutant of the loop below: every titled recommendation is appended
RECURSIVE MergeRecommendationsUnchecked(_, _, _)
MergeRecommendationsUnchecked(recs, merged, existing_titles) ==
    IF recs = <<>> THEN Returns(merged)
    ELSE LET rec == Head(recs)
             title == GetTitle(rec)
         IN  IF rec.kind # "object" THEN Raises
             ELSE IF title.kind # "string" THEN Raises
             ELSE IF Lower(title).text # ""
             THEN MergeRecommendationsUnchecked(Tail(recs), Append(merged, rec),
                      existing_titles \cup {Lower(title)})
             ELSE MergeRecommendationsUnchecked(Tail(recs), merged, existing_titles)

\* _merge_insights, the loop over the service's recommendations
RECURSIVE MergeRecommendations(_, _, _)
MergeRecommendations(recs, merged, existing_titles) ==
    IF recs = <<>> THEN Returns(merged)
    ELSE LET rec == Head(recs)
             title == GetTitle(rec)
         IN  IF rec.kind # "object" THEN Raises
             ELSE IF title.kind # "string" THEN Raises
             ELSE IF Lower(title).text # "" /\ Lower(title) \notin existing_titles
             THEN MergeRecommendations(Tail(recs), Append(merged, rec),
                      existing_titles \cup {Lower(title)})
             ELSE MergeRecommendations(Tail(recs), merged, existing_titles)

\* _merge_insights
MergeInsights(base, ai_insights) ==
    LET existing_titles ==
            { Lower(base.recommendations[i].title) :
                  i \in 1..Len(base.recommendations) }
        recs == MergeRecommendations(Iterate(ai_insights.recommendations),
                    base.recommendations, existing_titles)
    IN  IF ~Iterable(ai_insights.recommendations) THEN Raises
        ELSE IF recs.raised THEN Raises
        ELSE IF ~Iterable(ai_insights.good_to_know) THEN Raises
        ELSE Returns([ action_required |-> base.action_required,
                       recommendations |-> recs.insights,
                       good_to_know |->
                           base.good_to_know \o Iterate(ai_insights.good_to_know) ])

NoAi == [ pc |-> "none", api_key |-> FALSE, client |-> FALSE,
          base |-> EmptyInsights, service |-> Json("raises"),
          line |-> 0, out |-> EmptyInsights ]

\* InsightsAI(): a client is made when the credential is configured
InsightsAIInit ==
    /\ ai.pc = "new"
    /\ ai' = [ai EXCEPT !.pc = "constructed", !.client = ai.api_key]
    /\ UNCHANGED <<feedback, patterns, learnings, kbFile, backups, upd, wlog, snap,
                   prev, fblog, recorder, an, calc, det>>

\* analyze_itinerary: the line it returns at, and what it returns
AnalyzeItinerary ==
    /\ ai.pc = "constructed"
    /\ LET parsed == ParseAiResponse(ai.service)
           merged == MergeInsights(ai.base, parsed.insights)
       IN  ai' = IF ~ai.client
                 THEN [ai EXCEPT !.pc = "returned", !.line = 46, !.out = ai.base]
                 ELSE IF ai.service.kind = "raises" \/ parsed.raised \/ merged.raised
                 THEN [ai EXCEPT !.pc = "returned", !.line = 82, !.out = ai.base]
                 ELSE [ai EXCEPT !.pc = "returned", !.line = 77,
                                 !.out = merged.insights]
    /\ UNCHANGED <<feedback, patterns, learnings, kbFile, backups, upd, wlog, snap,
                   prev, fblog, recorder, an, calc, det>>

----------------------------------------------------------------------------
(* The Pattern Matcher: PatternMatcher *)

\* _query_pattern(category, destination, filters) on a store db: up (the
\* queries succeed), rows (the row of insights_patterns of each category, or
\* NoPattern), local (the categories with feedback of the trip's destination).
\* Every exception is caught: no row, one row too many, a failed query give
\* None.  The row is returned with 'evidence' set only when there is feedback
\* of the destination, its 'metrics' being the row itself.
QueryPattern(db, category) ==
    IF ~db.up \/ db.rows[category] = NoPattern
    THEN [found |-> FALSE, row |-> NoPattern, evidence |-> <<>>]
    ELSE [ found |-> TRUE, row |-> db.rows[category],
           evidence |-> IF category \in db.local THEN <<db.rows[category]>> ELSE <<>> ]

\* pattern.get('evidence', {}).get('metrics', {}).get('acceptance_rate', 0)
AcceptanceRate(pattern) ==
    IF pattern.evidence = <<>> THEN 0 ELSE pattern.evidence[1].acceptance_rate

\* a learned_pattern insight: sample_size and acceptance are the numbers its
\* description tells (None when it tells none), acceptance as "{:.0f}" prints it
LearnedInsight(name, severity, sample_size, acceptance_rate) ==
    [ id |-> name, type |-> "learned_pattern", severity |-> severity,
      sample_size |-> sample_size, acceptance |-> Format0(acceptance_rate) ]

\* the mutant of _check_late_arrival_pattern: the confidence is not looked at
CheckLateArrivalPatternUnqualified(elements, db) ==
    LET flights == OfType(elements, "flight")
        arrival_time == MinBy(flights, "end_time").end_time
        pattern == QueryPattern(db, "accommodation_gap")
    IN  IF flights = <<>> \/ KeysRaise(flights, "end_time") THEN <<>>
        ELSE IF ~IsTime(arrival_time) THEN <<>>
        ELSE IF (arrival_time.local \div Hour) % 24 < 20 THEN <<>>
        ELSE IF ~pattern.found THEN <<>>
        ELSE << LearnedInsight("proactive_late_arrival", "warning",
                               pattern.row.sample_size, AcceptanceRate(pattern)) >>

\* _check_late_arrival_pattern: None (here <<>>) or an insight; every
\* exception is caught
CheckLateArrivalPattern(elements, db) ==
    LET flights == OfType(elements, "flight")
        arrival_time == MinBy(flights, "end_time").end_time
        pattern == QueryPattern(db, "accommodation_gap")
    IN  IF flights = <<>> \/ KeysRaise(flights, "end_time") THEN <<>>
        ELSE IF ~IsTime(arrival_time) THEN <<>>
        ELSE IF (arrival_time.local \div Hour) % 24 < 20 THEN <<>>
        ELSE IF ~pattern.found \/ pattern.row.confidence_score < 60 * 100 THEN <<>>
        ELSE << LearnedInsight("proactive_late_arrival", "warning",
                               pattern.row.sample_size, AcceptanceRate(pattern)) >>

\* _check_tight_timing_pattern
CheckTightTimingPattern(db) ==
    LET pattern == QueryPattern(db, "tight_timing")
    IN  IF ~pattern.found \/ pattern.row.confidence_score < 60 * 100 THEN <<>>
        ELSE IF AcceptanceRate(pattern) < 40 * 100 THEN <<>>
        ELSE << LearnedInsight("proactive_tight_timing", "info",
                               pattern.row.sample_size, AcceptanceRate(pattern)) >>

\* _check_missing_elements_pattern: its description tells no sample size
CheckMissingElementsPattern(elements, db) ==
    LET pattern == QueryPattern(db, "missing_transportation")
    IN  IF OfType(elements, "transportation") # <<>> \/ OfType(elements, "flight") = <<>>
        THEN <<>>
        ELSE IF pattern.found /\ pattern.row.confidence_score >= 60 * 100
        THEN << LearnedInsight("proactive_missing_transport", "info", None,
                               AcceptanceRate(pattern)) >>
        ELSE <<>>

\* get_proactive_insights: trip.get('destination', '').lower() raises on a
\* null destination; then the three checks in their order
GetProactiveInsights(trip, elements, db) ==
    IF trip.destination.kind # "string" THEN Raises
    ELSE Returns(CheckLateArrivalPattern(elements, db)
                 \o CheckTightTimingPattern(db)
                 \o CheckMissingElementsPattern(elements, db))

\* a call of get_proactive_insights
GetProactiveInsightsCall ==
    /\ calc.fn = "get_proactive_insights"
    /\ Len(calc.out) < Len(calc.args)
    /\ LET a == calc.args[Len(calc.out) + 1]
       IN  calc' = [calc EXCEPT !.out =
                       Append(@, GetProactiveInsights(a.trip, a.elements, a.db))]
    /\ UNCHANGED <<feedback, patterns, learnings, kbFile, backups, upd, wlog, snap,
                   prev, fblog, recorder, an, det, ai>>

----------------------------------------------------------------------------
(* Initial states *)

GoodReaction == [action_taken |-> "acted", rating |-> 5, helpful |-> "true"]

\* n reactions payload to distinct insights of one category, keys from first on
UniformRows(first, n, category, payload) ==
    [i \in 1..n |-> FeedbackRow(first + i - 1, category, payload)]

NoPrev == [ ran |-> FALSE, error |-> "none", applied |-> 0, approved |-> FALSE,
            kbFile |-> [exists |-> FALSE, content |-> <<>>] ]

\* the documents the updater may find
InitFiles ==
    { [exists |-> TRUE,  content |-> <<TextLine, MarkerLine, TextLine>>],
      [exists |-> TRUE,  content |-> <<MarkerLine, TextLine, MarkerLine>>],
      [exists |-> TRUE,  content |-> <<TextLine>>],
      [exists |-> FALSE, content |-> <<>>] }

\* the feedback the analyses of Spec work on: two categories that both
\* qualify for a Learning, with different confidence
KbFeedback ==
    UniformRows(1, InitRows, "accommodation_gap", GoodReaction)
    \o UniformRows(InitRows + 1, InitRows + 1, "tight_timing", GoodReaction)

\* a Learning a reviewer has rejected
RejectedLearning ==
    [ NewLearning(<<>>, "accommodation_gap",
                  CalculatePatternMetrics("accommodation_gap",
                      UniformRows(1, InitRows, "accommodation_gap", GoodReaction)))
      EXCEPT !.status = "rejected" ]

\* no Pattern stored, no call of the learning loop running
InitLearning ==
    /\ patterns = [c \in Categories |-> NoPattern]
    /\ backups = {}
    /\ upd = [u \in Updaters |-> IdleUpd]
    /\ wlog = [u \in Updaters |-> <<>>]
    /\ snap = [u \in Updaters |-> NoSnap]
    /\ prev = NoPrev
    /\ fblog = NoFblog
    /\ an = IdleAn
    /\ recorder = [r \in Recorders |-> IdleRec]

InitCommon ==
    /\ InitLearning
    /\ calc = NoCalc
    /\ det = NoDet
    /\ ai = NoAi

\* the updater's specification: analyses over a fixed feedback table, approvals
\* and updates, one request at a time
Init ==
    /\ InitCommon
    /\ feedback = KbFeedback
    /\ learnings \in {<<>>, <<RejectedLearning>>}
    /\ kbFile \in InitFiles

SeqStart(u, dry_run) == AllIdle /\ UStart(u, dry_run)
SeqApprove(learning_id) == AllIdle /\ ApproveKbLearning(learning_id)
SeqAnalyze(category) == AllIdle /\ TriggerPatternAnalysis(category)

\* Spec has one caller of the updater, SpecFeedback has none
Callers == {"u1"}

Next ==
    \/ \E u \in Callers, dry_run \in BOOLEAN : SeqStart(u, dry_run)
    \/ \E u \in Callers, dbOk \in BOOLEAN : UQuery(u, dbOk)
    \/ \E u \in Callers, ioOk \in BOOLEAN : URead(u, ioOk)
    \/ \E u \in Callers, dbOk \in BOOLEAN : ULoop(u, dbOk)
    \/ \E u \in Callers, outcome \in IoOutcomes : UBackup(u, outcome)
    \/ \E u \in Callers, outcome \in IoOutcomes : UWrite(u, outcome)
    \/ \E u \in Callers : UReturn(u)
    \/ \E learning_id \in 1..MaxLearnings : SeqApprove(learning_id)
    \/ \E category \in Categories \cup {NoCategory} : SeqAnalyze(category)

Spec == Init /\ [][Next]_vars

\* the recorder's specification: reactions arrive and are analysed
InitFeedback ==
    /\ InitCommon
    /\ \E payload \in Payloads :
           feedback = UniformRows(1, InitRows, "accommodation_gap", payload)
                      \o UniformRows(InitKeys, 1, "tight_timing", GoodReaction)
    /\ learnings = <<>>
    /\ kbFile = [exists |-> TRUE, content |-> <<TextLine, MarkerLine, TextLine>>]

NextFeedback ==
    \/ \E key \in 1..(InitKeys + MaxNew), category \in Categories,
          payload \in Payloads, dbOk \in BOOLEAN :
            RecordFeedback(key, category, payload, dbOk)
    \/ \E category \in Categories \cup {NoCategory} : TriggerPatternAnalysis(category)

SpecFeedback == InitFeedback /\ [][NextFeedback]_vars

\* the reactions of the samples the Analyzer is run on
Reactions ==
    Payloads \cup
    { [action_taken |-> "rated",     rating |-> 5,    helpful |-> "true"],
      [action_taken |-> "rated",     rating |-> 1,    helpful |-> "false"],
      [action_taken |-> "acted",     rating |-> 3,    helpful |-> "false"] }

\* 100 reactions to accommodation_gap insights, 85 of them acted, all rated, with
\* ratings of mean 4.5, every one carrying the given helpful flag
PromotionSample(helpful) ==
    UniformRows(1, 50, "accommodation_gap",
                [action_taken |-> "acted", rating |-> 5, helpful |-> helpful])
    \o UniformRows(51, 35, "accommodation_gap",
                   [action_taken |-> "acted", rating |-> 4, helpful |-> helpful])
    \o UniformRows(86, 15, "accommodation_gap",
                   [action_taken |-> "dismissed", rating |-> 4, helpful |-> helpful])

\* the Analyzer's specification: one analyze_patterns call at a time over a
\* fixed feedback table, each of its reads and writes able to fail
InitAnalysis ==
    /\ InitCommon
    /\ \/ \E r1 \in Reactions, r2 \in Reactions, n2 \in {0, 1, InitRows + 1} :
              feedback = UniformRows(1, InitRows + 1, "accommodation_gap", r1)
                         \o UniformRows(InitRows + 2, n2, "tight_timing", r2)
       \/ \E helpful \in {"true", "none"} : feedback = PromotionSample(helpful)
    /\ learnings = <<>>
    /\ kbFile = [exists |-> TRUE, content |-> <<TextLine, MarkerLine, TextLine>>]

NextAnalysis ==
    \/ \E category \in Categories \cup {NoCategory}, dbOk \in BOOLEAN :
           AnStart(category, dbOk)
    \/ \E dbOk \in BOOLEAN : AnUpsert(dbOk)
    \/ \E dbOk \in BOOLEAN : AnConsider(dbOk)
    \/ AnReturn

SpecAnalysis == InitAnalysis /\ [][NextAnalysis]_vars

\* the recorder's and the Analyzer's specification side by side: two clients
\* react to insights nobody has reacted to yet while analyze_patterns runs write
\* by write
\* the reactions at hand there: one that acts on the insight and rates it, one
\* that dismisses it
RaceReactions ==
    {GoodReaction, [action_taken |-> "dismissed", rating |-> None, helpful |-> "none"]}

InitRace ==
    /\ InitCommon
    /\ \E payload \in RaceReactions :
           feedback = UniformRows(1, InitRows, "accommodation_gap", payload)
    /\ learnings = <<>>
    /\ kbFile = [exists |-> TRUE, content |-> <<TextLine, MarkerLine, TextLine>>]

NextRace ==
    \/ \E r \in Recorders, category \in Categories, payload \in RaceReactions,
          dbOk \in BOOLEAN : RecWrite(r, category, payload, dbOk)
    \/ \E r \in Recorders, dbOk \in BOOLEAN : RecCheck(r, dbOk)
    \/ \E category \in Categories \cup {NoCategory}, dbOk \in BOOLEAN :
           AnStart(category, dbOk)
    \/ \E dbOk \in BOOLEAN : AnUpsert(dbOk)
    \/ \E dbOk \in BOOLEAN : AnConsider(dbOk)
    \/ AnReturn

SpecRace == InitRace /\ [][NextRace]_vars

\* the Learnings of the two categories of KbFeedback, both approved by a
\* reviewer and none applied
ApprovedLearnings ==
    LET out == AnalyzePatterns(NoCategory, KbFeedback,
                               [c \in Categories |-> NoPattern], <<>>)
    IN  MarkApproved(MarkApproved(out.learnings, 1), 2)

\* the updater's specification with two requests side by side: each
\* update_kb_with_learnings call takes its steps whenever it can
InitUpdaters ==
    /\ InitCommon
    /\ feedback = KbFeedback
    /\ learnings = ApprovedLearnings
    /\ kbFile = [exists |-> TRUE, content |-> <<TextLine, MarkerLine, TextLine>>]

NextUpdaters ==
    \/ \E u \in Updaters, dry_run \in BOOLEAN : UStart(u, dry_run)
    \/ \E u \in Updaters, dbOk \in BOOLEAN : UQuery(u, dbOk)
    \/ \E u \in Updaters, ioOk \in BOOLEAN : URead(u, ioOk)
    \/ \E u \in Updaters, dbOk \in BOOLEAN : ULoop(u, dbOk)
    \/ \E u \in Updaters, outcome \in IoOutcomes : UBackup(u, outcome)
    \/ \E u \in Updaters, outcome \in IoOutcomes : UWrite(u, outcome)
    \/ \E u \in Updaters : UReturn(u)

SpecUpdaters == InitUpdaters /\ [][NextUpdaters]_vars

\* values around the thresholds of _determine_recommendation, in units of 1/10000
ConfidenceGrid == {0, 60 * Unit - 1, 60 * Unit, 60 * Unit + 1, 100 * Unit}
AcceptanceGrid ==
    {0, 20 * Unit - 1, 20 * Unit, 20 * Unit + 1, 50 * Unit,
     80 * Unit - 1, 80 * Unit, 80 * Unit + 1, 100 * Unit}
DismissalGrid == {0, 70 * Unit - 1, 70 * Unit, 70 * Unit + 1, 100 * Unit}
RatingGrid == {None, Unit, 2 * Unit - 1, 2 * Unit, 3 * Unit, 4 * Unit - 1, 4 * Unit, 5 * Unit}

RecommendationCalls ==
    { [fn |-> "_determine_recommendation", args |-> <<a>>, out |-> <<>>] :
        a \in [acceptance_rate : AcceptanceGrid, dismissal_rate : DismissalGrid,
               average_rating : RatingGrid, confidence_score : ConfidenceGrid] }

\* the reactions of the samples the metrics are computed on
MetricReactions ==
    Reactions \cup {[action_taken |-> "acted", rating |-> 5, helpful |-> "none"]}

\* a sample of one category in two runs of like reactions
TwoRuns(n1, r1, n2, r2) ==
    UniformRows(1, n1, "accommodation_gap", r1)
    \o UniformRows(n1 + 1, n2, "accommodation_gap", r2)

\* the metrics of the first run of a sample, then of the whole sample
MetricsCalls ==
    { [fn |-> "_calculate_pattern_metrics",
       args |-> << [category |-> "accommodation_gap",
                    feedbacks |-> TwoRuns(n1, r1, 0, r2)],
                   [category |-> "accommodation_gap",
                    feedbacks |-> TwoRuns(n1, r1, n2, r2)] >>,
       out |-> <<>>] :
        n1 \in {1, InitRows + 1}, n2 \in {1, InitRows + 1},
        r1 \in MetricReactions, r2 \in MetricReactions }

\* the pure functions' specification: each call is made on its arguments
InitMetrics ==
    /\ InitLearning
    /\ feedback = <<>>
    /\ learnings = <<>>
    /\ kbFile = [exists |-> TRUE, content |-> <<TextLine, MarkerLine, TextLine>>]
    /\ det = NoDet
    /\ ai = NoAi
    /\ calc \in RecommendationCalls \cup MetricsCalls

NextMetrics ==
    \/ DetermineRecommendationCall
    \/ CalculatePatternMetricsCall

SpecMetrics == InitMetrics /\ [][NextMetrics]_vars

\* the trips the Detector is given: three days, one day, no start date
Trips ==
    { [start_date |-> Naive(0), end_date |-> Naive(72 * Hour)],
      [start_date |-> Naive(0), end_date |-> Naive(24 * Hour)],
      [start_date |-> NullTime, end_date |-> Naive(72 * Hour)] }

Element(type, start_time, end_time) ==
    [id |-> 0, type |-> type, start_time |-> start_time, end_time |-> end_time]

\* the elements a trip is made of: an inbound and an outbound flight, two
\* lodgings that overlap, one of them ending two hours before the outbound
\* flight, a dinner before the landing, a ride from the airport, an activity,
\* a flight without departure time, a lodging with timestamps that carry an offset
Elements ==
    { Element("flight", Naive(6 * Hour), Naive(10 * Hour)),
      Element("flight", Naive(70 * Hour), Naive(74 * Hour)),
      Element("accommodation", Naive(12 * Hour), Naive(68 * Hour)),
      Element("accommodation", Naive(20 * Hour), Naive(60 * Hour)),
      Element("dining", Naive(8 * Hour), Naive(9 * Hour)),
      Element("transportation", Naive(11 * Hour), NoTime),
      Element("activity", Naive(30 * Hour), Naive(32 * Hour)),
      Element("flight", NullTime, Naive(10 * Hour)),
      Element("accommodation", Aware(12 * Hour, 0), Aware(68 * Hour, 0)) }

\* the rows of trip_elements of a trip, each with its id
Itineraries ==
    UNION { { [i \in 1..n |-> [choice[i] EXCEPT !.id = i]] :
                choice \in [1..n -> Elements] } : n \in 0..MaxElements }

\* the Detector's specification: a Detector is made for a trip and analyses it
InitDetector ==
    /\ InitLearning
    /\ feedback = <<>>
    /\ learnings = <<>>
    /\ kbFile = [exists |-> TRUE, content |-> <<TextLine, MarkerLine, TextLine>>]
    /\ calc = NoCalc
    /\ ai = NoAi
    /\ \E trip \in Trips, elements \in Itineraries :
           det = [NoDet EXCEPT !.pc = "new", !.trip = trip, !.elements = elements]

NextDetector ==
    \/ DetectorInit
    \/ DetectorAnalyze

SpecDetector == InitDetector /\ [][NextDetector]_vars

\* a trip from 5 to 12 November by its dates, and one without start date
RuleTrips ==
    { [start_date |-> Naive(0), end_date |-> Naive(168 * Hour)],
      [start_date |-> NullTime, end_date |-> Naive(168 * Hour)] }

\* the elements the rules are tried on, with timestamps in UTC ('Z') as hours
\* and minutes from 5 November 00:00: an inbound flight landing at 22:00; one
\* with the offset -05:00 landing at 21:00 local time; outbound flights leaving
\* 1h, 1h40, 3h and 3h40 after the check-out of 12 November 11:00 and one
\* leaving at 12:00 local time with the offset -05:00; lodgings from
\* 7 November 15:00 and from 5 November 15:00 to that check-out, two lodgings
\* checked in 6h and 6h30 after the landing, the first ending when another
\* starts, a lodging for the whole trip; a dinner and an activity within the stay
RuleElements ==
    { Element("flight", Aware(20 * Hour, 0), Aware(22 * Hour, 0)),
      Element("flight", Aware(19 * Hour, 0 - 5 * Hour), Aware(21 * Hour, 0 - 5 * Hour)),
      Element("flight", Aware(180 * Hour, 0), Aware(182 * Hour, 0)),
      Element("flight", Aware(180 * Hour + 40, 0), Aware(182 * Hour + 30, 0)),
      Element("flight", Aware(182 * Hour, 0), Aware(184 * Hour, 0)),
      Element("flight", Aware(182 * Hour + 40, 0), Aware(185 * Hour, 0)),
      Element("flight", Aware(180 * Hour, 0 - 5 * Hour), Aware(182 * Hour, 0 - 5 * Hour)),
      Element("accommodation", Aware(63 * Hour, 0), Aware(179 * Hour, 0)),
      Element("accommodation", Aware(15 * Hour, 0), Aware(179 * Hour, 0)),
      Element("accommodation", Aware(28 * Hour, 0), Aware(63 * Hour, 0)),
      Element("accommodation", Aware(28 * Hour + 30, 0), Aware(60 * Hour, 0)),
      Element("accommodation", Aware(4 * Hour, 0), Aware(170 * Hour, 0)),
      Element("dining", Aware(43 * Hour, 0), Aware(45 * Hour, 0)),
      Element("activity", Aware(57 * Hour, 0), Aware(70 * Hour, 0)) }

\* the Detector's rules: the Detector on the itineraries made of these elements
InitRules ==
    /\ InitLearning
    /\ feedback = <<>>
    /\ learnings = <<>>
    /\ kbFile = [exists |-> TRUE, content |-> <<TextLine, MarkerLine, TextLine>>]
    /\ calc = NoCalc
    /\ ai = NoAi
    /\ \E trip \in RuleTrips, n \in 0..MaxElements : \E choice \in [1..n -> RuleElements] :
           det = [NoDet EXCEPT !.pc = "new", !.trip = trip,
                               !.elements = [i \in 1..n |-> [choice[i] EXCEPT !.id = i]]]

SpecRules == InitRules /\ [][NextDetector]_vars

\* what the Detector returns for the trips above
DetectorOutputs ==
    { Analyze(trip, elements).insights :
          <<trip, elements>> \in
              { te \in Trips \X Itineraries :
                    /\ ~KeysRaise(te[2], "start_time")
                    /\ ~Analyze(te[1], te[2]).raised } }

\* the items of the service's recommendations: one titled as the Detector's
\* dining recommendation in capitals, two titled alike but for the case, one
\* with an empty title, one with a number for title, one without title, and a
\* number in place of an object
AiRecommendations ==
    { Rec(Str("no dining reservations", "upper")),
      Rec(Str("travel insurance", "capitalized")),
      Rec(Str("travel insurance", "upper")),
      Rec(Str("", "lower")),
      Rec(Json("number")),
      Rec(Json("absent")),
      Json("number") }

\* the items of the service's good_to_know
AiGoodToKnow == { Rec(Str("rainy season", "capitalized")), Json("number") }

Lists(items) ==
    { Array(list) : list \in UNION { [1..n -> items] : n \in 0..MaxAiItems } }

\* the outcomes of the call of the service: it fails, answers without content,
\* with a text that is not JSON, with JSON that is no object, or with an object
\* whose two keys are absent, null, a string or a list
Services ==
    { Json("raises"), Json("none"), Json("invalid"), Json("number"), Array(<<>>) }
    \cup { Response(recommendations, good_to_know) :
               recommendations \in
                   {Json("absent"), Json("null"), Str("no", "lower")}
                   \cup Lists(AiRecommendations),
               good_to_know \in
                   {Json("absent"), Json("null"), Str("no", "lower")}
                   \cup Lists(AiGoodToKnow) }

\* the Enhancer's specification: an Enhancer is made and is handed what the
\* Detector returned
InitEnhancer ==
    /\ InitLearning
    /\ feedback = <<>>
    /\ learnings = <<>>
    /\ kbFile = [exists |-> TRUE, content |-> <<TextLine, MarkerLine, TextLine>>]
    /\ calc = NoCalc
    /\ det = NoDet
    /\ \E api_key \in BOOLEAN, base \in DetectorOutputs, service \in Services :
           ai = [NoAi EXCEPT !.pc = "new", !.api_key = api_key, !.base = base,
                             !.service = service]

NextEnhancer ==
    \/ InsightsAIInit
    \/ AnalyzeItinerary

SpecEnhancer == InitEnhancer /\ [][NextEnhancer]_vars

\* the categories the Matcher looks up
MatcherCategories == {"accommodation_gap", "tight_timing", "missing_transportation"}

\* the row of a category in insights_patterns: none, or what the Analyzer
\* stores for ten records acted on, ten dismissed (each rated 5 and helpful), six
\* acted on and one dismissed, one record dismissed
StoredPatterns(category) ==
    { NoPattern }
    \cup { CalculatePatternMetrics(category, TwoRuns(n1, r1, n2, r2)) :
               <<n1, r1, n2, r2>> \in
                   { <<10, [action_taken |-> "acted", rating |-> 5, helpful |-> "true"],
                       0, [action_taken |-> "dismissed", rating |-> 5, helpful |-> "true"]>>,
                     <<0, [action_taken |-> "acted", rating |-> 5, helpful |-> "true"],
                       10, [action_taken |-> "dismissed", rating |-> 5, helpful |-> "true"]>>,
                     <<6, [action_taken |-> "acted", rating |-> 5, helpful |-> "true"],
                       1, [action_taken |-> "dismissed", rating |-> 5, helpful |-> "true"]>>,
                     <<0, [action_taken |-> "acted", rating |-> 5, helpful |-> "true"],
                       1, [action_taken |-> "dismissed", rating |-> None, helpful |-> "none"]>> } }

\* the itineraries: none, a flight landing at 22:00, one landing at 10:00, the
\* late flight with a ride, a flight without landing time, alone and with the
\* late flight
MatcherItineraries ==
    { <<>>,
      << Element("flight", Naive(18 * Hour), Naive(22 * Hour)) >>,
      << Element("flight", Naive(6 * Hour), Naive(10 * Hour)) >>,
      << Element("flight", Naive(18 * Hour), Naive(22 * Hour)),
         Element("transportation", Naive(23 * Hour), NoTime) >>,
      << Element("flight", Naive(18 * Hour), NullTime) >>,
      << Element("flight", Naive(18 * Hour), Naive(22 * Hour)),
         Element("flight", Naive(18 * Hour), NullTime) >> }

\* the calls of get_proactive_insights
MatcherCalls ==
    { [fn |-> "get_proactive_insights",
       args |-> << [trip |-> [destination |-> destination], elements |-> elements,
                    db |-> [up |-> up, rows |-> rows, local |-> local]] >>,
       out |-> <<>>] :
        destination \in {Str("orlando", "capitalized"), Json("null")},
        elements \in MatcherItineraries,
        up \in BOOLEAN,
        rows \in { r \in [MatcherCategories -> UNION {StoredPatterns(c) : c \in MatcherCategories}] :
                       \A c \in MatcherCategories : r[c] \in StoredPatterns(c) },
        local \in SUBSET MatcherCategories }

\* the Matcher's specification: calls of get_proactive_insights on a store
InitMatcher ==
    /\ InitLearning
    /\ feedback = <<>>
    /\ learnings = <<>>
    /\ kbFile = [exists |-> TRUE, content |-> <<TextLine, MarkerLine, TextLine>>]
    /\ det = NoDet
    /\ ai = NoAi
    /\ calc \in MatcherCalls

SpecMatcher == InitMatcher /\ [][GetProactiveInsightsCall]_vars

----------------------------------------------------------------------------
(* Properties of the Knowledge Base Updater, checked under Spec *)

Logged(u, what) == {i \in 1..Len(wlog[u]) : wlog[u][i][1] = what}
Flagged(u) == {wlog[u][i][2] : i \in Logged(u, "flag")}
EntriesOf(content, id) ==
    {i \in 1..Len(content) : content[i].kind = "entry" /\ content[i].learned = id}
Waiting(rows) ==
    {i \in 1..Len(rows) : rows[i].status = "approved" /\ ~rows[i].applied_to_kb}

\* C1: in a non-dry run the backup is written first, then the document, then the
\* applied flags: no flag is written before the document has been written, and
\* the document is not written before the backup.
C1_BackupThenDocumentThenFlags ==
    \A u \in Updaters :
        /\ \A i \in Logged(u, "flag") : \E j \in Logged(u, "kb") : j < i
        /\ \A i \in Logged(u, "kb") : \E j \in Logged(u, "backup") : j < i

\* C2: when the write of the document fails after the backup succeeded, no
\* Learning that was unapplied before the call is applied after it.
C2_FailedWriteMarksNothing ==
    \A u \in Updaters :
        (Logged(u, "backup") # {} /\ Logged(u, "kb failed") # {}) =>
            \A id \in 1..Len(learnings) :
                learnings[id].applied_to_kb => snap[u].learnings[id].applied_to_kb

\* C3: when writing the backup fails, the document is not written and keeps its
\* content, and the call returns an error with applied = 0.
C3_BackupFailureKeepsDocument ==
    \A u \in Updaters :
        Logged(u, "backup failed") # {} =>
            /\ Logged(u, "kb") = {} /\ Logged(u, "kb failed") = {}
            /\ kbFile = snap[u].kbFile
            /\ upd[u].pc = "done"
            /\ upd[u].ret.error # "none"
            /\ upd[u].ret.applied = 0

C3_BackupFailed ==
    \E u \in Updaters :
        /\ Logged(u, "backup failed") # {}
        /\ Flagged(u) # {}
        /\ upd[u].pc = "done"

\* a non-dry run that follows a finished non-dry run, no approval in between
SecondUpdate(u) ==
    /\ upd[u].pc = "done"
    /\ ~upd[u].dry_run
    /\ prev.ran
    /\ ~prev.approved

C5_OnlyApprovedUnappliedAreApplied ==
    /\ \A id \in 1..Len(learnings) :
           learnings[id].status \in {"pending", "rejected"} =>
               /\ ~learnings[id].applied_to_kb
               /\ kbFile.exists => EntriesOf(kbFile.content, id) = {}
    /\ \A u \in Updaters :
           \A id \in Flagged(u) \cup {upd[u].applied_learnings[i] :
                                        i \in 1..Len(upd[u].applied_learnings)} :
               /\ id \in Waiting(snap[u].learnings)
               /\ EntriesOf(upd[u].kb_content, id) # {}

C5_AppliedBesidePending ==
    /\ kbFile.exists
    /\ \E id \in 1..Len(learnings) :
           /\ learnings[id].applied_to_kb
           /\ EntriesOf(kbFile.content, id) # {}
    /\ \E id \in 1..Len(learnings) : learnings[id].status = "pending"

\* C6: a dry run writes neither the document nor a backup nor an applied flag,
\* and the applied count it returns is the number of learnings a non-dry run
\* would insert: the approved, unapplied ones when the document has the heading.
C6_DryRunChangesNothing ==
    \A u \in Updaters :
        (upd[u].pc # "idle" /\ upd[u].dry_run) =>
            /\ learnings = snap[u].learnings
            /\ kbFile = snap[u].kbFile
            /\ backups = snap[u].backups
            /\ (upd[u].pc = "done" /\ upd[u].ret.error = "none") =>
                   upd[u].ret.applied =
                       IF HasMarker(kbFile.content)
                       THEN Cardinality(Waiting(learnings))
                       ELSE 0

C6_DryRunCounted ==
    \E u \in Updaters :
        /\ upd[u].pc = "done"
        /\ upd[u].dry_run
        /\ upd[u].ret.error = "none"
        /\ upd[u].ret.applied = 2

----------------------------------------------------------------------------
(* Properties of the Feedback Recorder and the Pattern Analyzer, checked under
   SpecFeedback *)

KeysOfCategory(category) ==
    {feedback[i].key : i \in {j \in 1..Len(feedback) :
                                  feedback[j].insight_category = category}}

C8_ReanalysisAddsNoLearning ==
    [][(feedback' = feedback /\ patterns' = patterns) => learnings' = learnings]_vars

\* C9: after a successful write record_feedback analyses the written category
\* exactly when the write moved its count onto a milestone, and never another
\* category.
C9_AnalysisExactlyOnCrossing ==
    fblog.ok =>
        fblog.analyzed = IF fblog.before < fblog.after /\ fblog.after \in Milestones
                         THEN {fblog.category}
                         ELSE {}

\* C10: a category whose stored Pattern has confidence at least 70 and
\* recommendation upgrade or disable has a pending Learning.
C10_QualifyingPatternHasLearning ==
    \A c \in Categories :
        (/\ patterns[c] # NoPattern
         /\ patterns[c].confidence_score >= 7000
         /\ patterns[c].recommendation \in {"upgrade", "disable"}) =>
            \E id \in 1..Len(learnings) :
                /\ learnings[id].category = c
                /\ learnings[id].status = "pending"

\* C16: when the write of a Feedback Record fails, the caller is told the
\* operation failed: the answer is not a success.
C16_FailedWriteIsReported ==
    (fblog.category # "none" /\ ~fblog.ok) => ~fblog.response.success

----------------------------------------------------------------------------
(* Properties of analyze_patterns, checked under SpecAnalysis *)

Qualifies(pattern) ==
    /\ pattern.confidence_score >= 7000
    /\ pattern.recommendation \in {"upgrade", "disable"}

C12_PromotionScenario ==
    \A c \in Categories :
        (/\ an.pc = "done" /\ ~an.raised /\ ~an.write_failed
         /\ c \in an.stored
         /\ patterns[c].total_shown = 100
         /\ patterns[c].total_acted = 85
         /\ patterns[c].average_rating = 450) =>
            /\ patterns[c].recommendation = "upgrade"
            /\ patterns[c].confidence_score >= 8000
            /\ patterns[c].auto_apply
            /\ \E id \in 1..Len(learnings) :
                   learnings[id].category = c /\ learnings[id].status = "pending"

\* C17: when a write fails part-way through analyze_patterns nothing partial
\* stays: the call stored the Pattern of every category it analysed or of none,
\* and every qualifying Pattern it stored has the Learning made from it.
C17_FailedAnalysisLeavesNothingPartial ==
    (an.pc = "done" /\ an.write_failed) =>
        /\ an.stored \in {{}, {an.feedback_data[i].insight_category :
                                  i \in 1..Len(an.feedback_data)}}
        /\ \A c \in an.stored :
               Qualifies(patterns[c]) =>
                   \E id \in (Len(an.was.learnings) + 1)..Len(learnings) :
                       learnings[id].category = c

----------------------------------------------------------------------------
(* Properties of the Analyzer's pure functions, checked under SpecMetrics *)

\* the recommendation policy, case by case
Policy(a) ==
    IF a.confidence_score < 60 * Unit THEN "keep"
    ELSE IF a.acceptance_rate > 80 * Unit THEN "upgrade"
    ELSE IF a.acceptance_rate < 20 * Unit /\ a.dismissal_rate > 70 * Unit THEN "disable"
    ELSE IF a.acceptance_rate < 20 * Unit THEN "downgrade"
    ELSE IF a.average_rating # None /\ a.average_rating >= 4 * Unit THEN "upgrade"
    ELSE IF a.average_rating # None /\ a.average_rating < 2 * Unit THEN "downgrade"
    ELSE "keep"

\* C13: the recommendation is keep when confidence < 60; otherwise upgrade when
\* acceptance > 80; otherwise, when acceptance < 20, disable if dismissal > 70
\* else downgrade; otherwise upgrade when a rating exists and is >= 4.0,
\* downgrade when a rating exists and is < 2.0; otherwise keep.
C13_RecommendationPolicy ==
    (calc.fn = "_determine_recommendation" /\ Len(calc.out) = 1) =>
        calc.out[1] = Policy(calc.args[1])

C13_UpgradeByRating ==
    /\ calc.fn = "_determine_recommendation"
    /\ Len(calc.out) = 1
    /\ calc.out[1] = "upgrade"
    /\ calc.args[1].acceptance_rate = 80 * Unit
    /\ calc.args[1].average_rating = 4 * Unit
    /\ calc.args[1].confidence_score = 60 * Unit

\* C14: of two samples with the same acceptance rate and the same average
\* rating, one a part of the other, the larger has confidence at least that of
\* the smaller.
C14_ConfidenceGrowsWithSample ==
    (/\ calc.fn = "_calculate_pattern_metrics"
     /\ Len(calc.out) = 2
     /\ calc.out[1].acceptance_rate = calc.out[2].acceptance_rate
     /\ calc.out[1].average_rating = calc.out[2].average_rating) =>
        calc.out[2].confidence_score >= calc.out[1].confidence_score

\* the share of the rows passing Test among the rows passing Among, in
\* hundredths of a percent
Share(rows, Test(_), Among(_)) ==
    RoundDiv(10000 * Cardinality({i \in 1..Len(rows) : Among(rows[i]) /\ Test(rows[i])}),
             Cardinality({i \in 1..Len(rows) : Among(rows[i])}))

CarriesHelpful(f) == f.helpful # "none"
Shown(f) == TRUE

\* C15: the helpful percentage is the share of true flags among the records
\* that carry the flag, acceptance is acted/shown, dismissal is dismissed/shown
\* and the average rating is the mean over the rated records.
C15_RatesOverTheirOwnRecords ==
    calc.fn = "_calculate_pattern_metrics" =>
        \A k \in 1..Len(calc.out) :
            LET rows == calc.args[k].feedbacks
                p == calc.out[k]
            IN  /\ p.acceptance_rate = Share(rows, IsActed, Shown)
                /\ p.dismissal_rate = Share(rows, IsDismissed, Shown)
                /\ p.total_rated > 0 =>
                       p.average_rating = RoundDiv(100 * SumRatings(rows), p.total_rated)
                /\ (\E i \in 1..Len(rows) : CarriesHelpful(rows[i])) =>
                       p.helpful_percentage = Share(rows, IsHelpful, CarriesHelpful)

----------------------------------------------------------------------------
(* Properties of the Detector, checked under SpecDetector *)

Items(list) == {list[i] : i \in 1..Len(list)}

\* C20: every insight the Detector returns is in the bucket of its severity:
\* critical in action_required, warning in recommendations, info in
\* good_to_know, and in no other.
C20_BucketMatchesSeverity ==
    det.pc = "analyzed" =>
        /\ \A x \in Items(det.insights.action_required) : x.severity = "critical"
        /\ \A x \in Items(det.insights.recommendations) : x.severity = "warning"
        /\ \A x \in Items(det.insights.good_to_know) : x.severity = "info"

----------------------------------------------------------------------------
(* Properties of the AI Enhancer, checked under SpecEnhancer *)

\* the service's answer is of the wrong shape: no JSON, no object, or a key of
\* the object that is no list of titled objects
WellShaped(list) ==
    \/ list.kind = "absent"
    \/ /\ list.kind = "array"
       /\ \A i \in 1..Len(list.items) :
              list.items[i].kind = "object" /\ list.items[i].title.kind = "string"
Malformed(service) ==
    \/ service.kind # "object"
    \/ ~WellShaped(service.recommendations)
    \/ ~WellShaped(service.good_to_know)

\* C18: analyze_itinerary returns the Detector's output, equal in all three
\* buckets, when no credential is configured, when the call of the service
\* fails and when the service's answer is malformed.
C18_MalformedAnswerReturnsBase ==
    (ai.pc = "returned" /\ (~ai.api_key \/ Malformed(ai.service))) =>
        ai.out = ai.base

\* the recommendations and the good_to_know items the service answered with
Answered(key) ==
    IF ai.service.kind # "object" THEN <<>>
    ELSE IF key = "recommendations"
    THEN Iterate(GetList(ai.service.recommendations))
    ELSE Iterate(GetList(ai.service.good_to_know))

\* C19: in the merged output the Detector's recommendations come first,
\* unchanged and in their order; no recommendation after them has the title,
\* ignoring case, of a recommendation before it; the service's good_to_know
\* items are all appended to the Detector's, duplicates included.
C19_MergeKeepsBaseAndDropsDuplicates ==
    (ai.pc = "returned" /\ ai.line = 77) =>
        LET recs == ai.out.recommendations
            n == Len(ai.base.recommendations)
        IN  /\ Len(recs) >= n
            /\ SubSeq(recs, 1, n) = ai.base.recommendations
            /\ \A k \in (n + 1)..Len(recs) : \A j \in 1..(k - 1) :
                   recs[j].title.text # recs[k].title.text
            /\ \A k \in (n + 1)..Len(recs) : recs[k] \in Items(Answered("recommendations"))
            /\ ai.out.good_to_know = ai.base.good_to_know \o Answered("good_to_know")
            /\ ai.out.action_required = ai.base.action_required

\* C19 witness: a merge that dropped the service's recommendation titled as the
\* Detector's but for the case, kept another one, and appended two equal
\* good_to_know items
C19_DuplicateDropped ==
    /\ ai.pc = "returned" /\ ai.line = 77
    /\ Len(ai.base.recommendations) > 0
    /\ Len(Answered("recommendations")) = 2
    /\ Len(ai.out.recommendations) = Len(ai.base.recommendations) + 1
    /\ ~Malformed(ai.service)
    /\ \E i \in 1..2 :
           /\ Answered("recommendations")[i].title.text =
                  ai.base.recommendations[1].title.text
           /\ Answered("recommendations")[i].title.casing #
                  ai.base.recommendations[1].title.casing
    /\ Len(Answered("good_to_know")) = 2
    /\ Answered("good_to_know")[1] = Answered("good_to_know")[2]
    /\ Len(ai.out.good_to_know) = Len(ai.base.good_to_know) + 2

----------------------------------------------------------------------------
(* Properties of the Detector's rules, checked under SpecDetector and SpecRules *)

\* an itinerary some of whose elements lack a start or an end timestamp, the
\* other timestamps and the trip's dates being plain local times
LacksTimestamp(elements) ==
    \E i \in 1..Len(elements) :
        ~IsTime(elements[i].start_time) \/ ~IsTime(elements[i].end_time)
PlainTimes(trip, elements) ==
    /\ IsTime(trip.start_date) /\ IsTime(trip.end_date)
    /\ \A i \in 1..Len(elements) :
           ~elements[i].start_time.aware /\ ~elements[i].end_time.aware

\* C21: for an itinerary with null or missing timestamps on some elements,
\* making the Detector and calling analyze completes without raising.
C21_MissingTimestampsDoNotRaise ==
    (LacksTimestamp(det.elements) /\ PlainTimes(det.trip, det.elements)) =>
        det.pc # "raised"

\* the intervals of two elements overlap: start1 < end2 and start2 < end1
Timed(e) == IsTime(e.start_time) /\ IsTime(e.end_time)
Overlap(e1, e2) ==
    /\ Timed(e1) /\ Timed(e2)
    /\ Minutes(e2.end_time, e1.start_time) > 0
    /\ Minutes(e1.end_time, e2.start_time) > 0
Touch(e1, e2) ==
    /\ Timed(e1) /\ Timed(e2)
    /\ Minutes(e1.end_time, e2.start_time) = 0 \/ Minutes(e2.end_time, e1.start_time) = 0
\* the pairs of lodgings and the pairs of flights of the itinerary
PrimaryPairs ==
    { pair \in (1..Len(det.elements)) \X (1..Len(det.elements)) :
          /\ pair[1] < pair[2]
          /\ det.elements[pair[1]].type = det.elements[pair[2]].type
          /\ det.elements[pair[1]].type \in {"accommodation", "flight"} }
\* the conflicting_booking insights returned for the elements i and j
ConflictsOf(i, j) ==
    { k \in 1..Len(det.insights.action_required) :
          LET x == det.insights.action_required[k]
          IN  /\ x.type = "conflicting_booking"
              /\ {x.id.a, x.id.b} = {det.elements[i].id, det.elements[j].id} }

TimesOf(type, field) ==
    { det.elements[i][field] : i \in { k \in 1..Len(det.elements) :
          det.elements[k].type = type /\ IsTime(det.elements[k][field]) } }
Earliest(times) == CHOOSE t \in times : \A u \in times : Minutes(u, t) >= 0
Latest(times) == CHOOSE t \in times : \A u \in times : Minutes(t, u) >= 0
\* the arrival: the landing of the earliest-ending flight, else the trip's start;
\* the departure: the start of the latest-starting flight, else the trip's end
ArrivalTime ==
    IF TimesOf("flight", "end_time") # {} THEN Earliest(TimesOf("flight", "end_time"))
    ELSE det.trip.start_date
DepartureTime ==
    IF TimesOf("flight", "start_time") # {} THEN Latest(TimesOf("flight", "start_time"))
    ELSE det.trip.end_date
\* minutes from a to b, when both are known and can be compared
Measurable(a, b) == IsTime(a) /\ IsTime(b) /\ ~Mixed(a, b)
\* the accommodation_gap insights returned under a name
GapsNamed(name) ==
    SelectSeq(det.insights.action_required,
              LAMBDA x : x.type = "accommodation_gap" /\ x.id.name = name)
GapAsExpected(name, from, to) ==
    IF Minutes(to, from) > 6 * Hour
    THEN /\ Len(GapsNamed(name)) = 1
         /\ GapsNamed(name)[1].severity = "critical"
         /\ GapsNamed(name)[1].hours = Minutes(to, from) \div Hour
    ELSE GapsNamed(name) = <<>>

\* C23: for a trip with a lodging, an accommodation_gap insight for the arrival
\* is returned exactly when the earliest check-in is more than 6 hours after
\* the arrival, one for the departure exactly when the departure is more than
\* 6 hours after the latest check-out; it reports the whole hours of the gap.
C23_GapInsightsMatchGaps ==
    (det.pc = "analyzed" /\ TimesOf("accommodation", "start_time") # {}
                         /\ TimesOf("accommodation", "end_time") # {}) =>
        LET first_checkin == Earliest(TimesOf("accommodation", "start_time"))
            last_checkout == Latest(TimesOf("accommodation", "end_time"))
        IN  /\ Measurable(ArrivalTime, first_checkin) =>
                   GapAsExpected("accommodation_gap_arrival", ArrivalTime, first_checkin)
            /\ Measurable(last_checkout, DepartureTime) =>
                   GapAsExpected("accommodation_gap_departure", last_checkout,
                                 DepartureTime)

\* the tight_timing insights returned
TightTimings ==
    SelectSeq(det.insights.recommendations, LAMBDA x : x.type = "tight_timing")
\* the flights that leave after the latest check-out
LeavingAfter(checkout) ==
    { t \in TimesOf("flight", "start_time") : Minutes(t, checkout) > 0 }
TightGap(checkout) ==
    /\ LeavingAfter(checkout) # {}
    /\ Minutes(Earliest(LeavingAfter(checkout)), checkout) > Hour
    /\ Minutes(Earliest(LeavingAfter(checkout)), checkout) < 3 * Hour

\* C24: one warning tight_timing insight is returned when the next flight that
\* leaves after the latest lodging check-out leaves more than 1 hour and less
\* than 3 hours after it, and none otherwise.
C24_TightTimingBand ==
    det.pc = "analyzed" =>
        /\ det.insights.action_required \o det.insights.good_to_know =
               SelectSeq(det.insights.action_required \o det.insights.good_to_know,
                         LAMBDA x : x.type # "tight_timing")
        /\ IF /\ TimesOf("accommodation", "end_time") # {}
              /\ TightGap(Latest(TimesOf("accommodation", "end_time")))
           THEN Len(TightTimings) = 1 /\ TightTimings[1].severity = "warning"
           ELSE TightTimings = <<>>

\* an itinerary without flights, with timestamps that carry an offset, whose
\* lodgings do not overlap and cover the trip's dates within 6 hours, and whose
\* dinners and activities are within the stay
Clean ==
    /\ IsTime(det.trip.start_date) /\ IsTime(det.trip.end_date)
    /\ \A i \in 1..Len(det.elements) :
           /\ det.elements[i].type \in {"accommodation", "dining", "activity"}
           /\ Timed(det.elements[i])
           /\ det.elements[i].start_time.aware /\ det.elements[i].end_time.aware
    /\ TimesOf("accommodation", "start_time") # {}
    /\ \A pair \in PrimaryPairs : ~Overlap(det.elements[pair[1]], det.elements[pair[2]])
    /\ LET first_checkin == Earliest(TimesOf("accommodation", "start_time"))
           last_checkout == Latest(TimesOf("accommodation", "end_time"))
       IN  /\ Minutes(first_checkin, det.trip.start_date) <= 6 * Hour
           /\ Minutes(det.trip.end_date, last_checkout) <= 6 * Hour
           /\ \A i \in 1..Len(det.elements) :
                  /\ Minutes(det.elements[i].start_time, first_checkin) >= 0
                  /\ Minutes(last_checkout, det.elements[i].end_time) >= 0

\* C25: on such an itinerary the Detector completes and returns an empty
\* action_required list.
C25_CleanItineraryNoAlert ==
    Clean => /\ det.pc # "raised"
             /\ det.pc = "analyzed" => det.insights.action_required = <<>>

----------------------------------------------------------------------------
(* Properties of the Pattern Matcher, checked under SpecMatcher *)

\* a call of get_proactive_insights that is over, its arguments and its outcome
Matched == calc.fn = "get_proactive_insights" /\ Len(calc.out) = 1
\* the category a check looks up, by the id of its insight
CheckCategory(id) ==
    CASE id = "proactive_late_arrival" -> "accommodation_gap"
      [] id = "proactive_tight_timing" -> "tight_timing"
      [] id = "proactive_missing_transport" -> "missing_transportation"
\* the stored Pattern of a category qualifies: the lookup succeeds, the row
\* exists and its confidence is at least 60
Qualified(db, category) ==
    /\ db.up
    /\ db.rows[category] # NoPattern
    /\ db.rows[category].confidence_score >= 60 * 100

C27_DescriptionTellsStoredNumbers ==
    Matched =>
        \A x \in Items(calc.out[1].insights) :
            LET stored == calc.args[1].db.rows[CheckCategory(x.id)]
            IN  /\ x.sample_size = stored.sample_size
                /\ x.acceptance = Format0(stored.acceptance_rate)
                /\ x.id = "proactive_tight_timing" => stored.acceptance_rate >= 40 * 100

----------------------------------------------------------------------------
(* Properties of the learning loop under concurrent calls *)

\* the counts of a stored Pattern agree with each other
WellCounted(pattern) ==
    /\ pattern.total_acted + pattern.total_dismissed <= pattern.total_shown
    /\ pattern.total_shown = pattern.sample_size

\* the analyze_patterns call is between its read and its return
Analysing(a) == a.pc \in {"upsert", "consider"}

\* C28: while record_feedback calls write rows of a category, an
\* analyze_patterns call reads the feedback table once, keeps what it read to
\* its end, and every Pattern row it stores is the pure-function result over the
\* rows of that one read; every Pattern row stored, by it or by the analysis a
\* record_feedback call triggers, is the result over the category's rows at
\* one moment and has total_acted + total_dismissed <= total_shown =
\* sample_size.
C28_StoredPatternIsOneSnapshot ==
    [][ /\ (an.pc = "idle" /\ Analysing(an')) =>
               an'.feedback_data = IF an'.insight_category # NoCategory
                                   THEN SelectRows(feedback, an'.insight_category)
                                   ELSE feedback
        /\ (Analysing(an) /\ Analysing(an')) => an'.feedback_data = an.feedback_data
        /\ \A c \in Categories :
               patterns'[c] # patterns[c] =>
                   /\ WellCounted(patterns'[c])
                   /\ IF an' # an
                      THEN /\ an.pc = "upsert"
                           /\ c = Head(an.cats)
                           /\ patterns'[c] = CalculatePatternMetrics(
                                                 c, SelectRows(an.feedback_data, c))
                      ELSE patterns'[c] = CalculatePatternMetrics(
                                              c, SelectRows(feedback, c)) ]_vars

\* C28 witness: the call has stored the Pattern of a category a record_feedback
\* call wrote a row of after the read, so the stored row is the result over the
\* rows read and not over the rows the table holds now
C28_WriteLandedAfterTheRead ==
    /\ Analysing(an)
    /\ \E c \in an.stored :
           /\ \E r \in Recorders : /\ recorder[r].pc # "idle"
                                   /\ recorder[r].insight_category = c
                                   /\ ~recorder[r].raised
           /\ SelectRows(feedback, c) # SelectRows(an.feedback_data, c)
           /\ patterns[c] = CalculatePatternMetrics(c, SelectRows(an.feedback_data, c))
           /\ patterns[c] # CalculatePatternMetrics(c, SelectRows(feedback, c))

\* the record_feedback calls for a category that have returned
Returned(c) ==
    {r \in Recorders : recorder[r].pc = "done" /\ recorder[r].insight_category = c}

\* C29: once the concurrent record_feedback calls, each with its own natural
\* key, have all returned without a failed query, every milestone the count of
\* a category passed, from below it when the first of them began to it or above
\* now, was seen by at least one of the calls for that category, which called
\* analyze_patterns.
C29_MilestoneNeverSkipped ==
    \A c \in Categories, m \in Milestones :
        ( /\ \A r \in Recorders : recorder[r].pc = "done" /\ ~recorder[r].raised
          /\ \E r \in Returned(c) : recorder[r].before < m
          /\ CategoryCount(feedback, c) >= m )
        => \E r \in Returned(c) : recorder[r].triggered

\* an update that began with nothing applied and the document without entries
BeganClean(u) ==
    /\ \A i \in 1..Len(snap[u].learnings) : ~snap[u].learnings[i].applied_to_kb
    /\ HasMarker(snap[u].kbFile.content)
    /\ \A i \in 1..Len(snap[u].kbFile.content) :
           snap[u].kbFile.content[i].kind # "entry"

\* C30: when two update_kb_with_learnings calls that both began with nothing
\* applied have both come to their return without an error, every Learning
\* marked applied has exactly one entry in the document: the calls did not
\* overlap their read, backup and write, so none was lost by an overwrite and
\* none inserted twice.
C30_ConcurrentUpdatesKeepOneEntryEach ==
    ( \A u \in Updaters : /\ upd[u].pc = "done"
                          /\ ~upd[u].dry_run
                          /\ upd[u].ret.error = "none"
                          /\ BeganClean(u) )
    => \A i \in 1..Len(learnings) :
           learnings[i].applied_to_kb =>
               Cardinality(EntriesOf(kbFile.content, learnings[i].id)) = 1

====
